---- MODULE Spec2Model ----
(***************************************************************************)
(* Frames photo tool: layout engine (padding, contain-fit placement,       *)
(* caption anchor), preview render and export render, the component state  *)
(* that drives them, the caption text built from EXIF tags or typed by     *)
(* hand, and the fetch listener of the service worker.                     *)
(*                                                                         *)
(* JavaScript numbers are modelled as exact rationals <<n, d>> in lowest   *)
(* terms with d > 0.  Math.round is floor(x + 1/2).  The canvas sizes and  *)
(* image sizes enumerated below were chosen so that the exact value and    *)
(* the IEEE-754 double value round the same way; where a double comparison *)
(* differs from the exact one (the edge of an aspect band) the comparison  *)
(* is modelled with its double-precision outcome.                          *)
(***************************************************************************)
EXTENDS Integers, Sequences, FiniteSets, TLC

VARIABLES image, ratio, space, captionLines, innerWidth, forceMobile,
          mobileDevice, showErrorPopup, printStatus, showResetButton,
          isPrintDisabled, pendingBlobs, exportRender,
          color, autoColor, snapPattern, retrobluePattern, autoPattern,
          exifData, isFilmScannerImage, manualCamera, manualPlace, canvasRef,
          staticCache, dynamicCache, lastFetch

vars == <<image, ratio, space, captionLines, innerWidth, forceMobile,
          mobileDevice, showErrorPopup, printStatus, showResetButton,
          isPrintDisabled, pendingBlobs, exportRender,
          color, autoColor, snapPattern, retrobluePattern, autoPattern,
          exifData, isFilmScannerImage, manualCamera, manualPlace, canvasRef,
          staticCache, dynamicCache, lastFetch>>

\* the frame colour selection
colourVars == <<color, autoColor, snapPattern, retrobluePattern, autoPattern>>

\* the manual caption of a film scan
manualVars == <<isFilmScannerImage, manualCamera, manualPlace>>

\* the service worker: its two caches and the handling of the last request
swVars == <<staticCache, dynamicCache, lastFetch>>

(***************************************************************************)
(* Number arithmetic                                                       *)
(***************************************************************************)
IAbs(x) == IF x < 0 THEN -x ELSE x

RECURSIVE GCD(_, _)
GCD(a, b) == IF b = 0 THEN a ELSE GCD(b, a % b)

\* n / d in lowest terms, d # 0
Frac(n, d) ==
  LET s == IF d < 0 THEN -1 ELSE 1
      g == GCD(IAbs(n), IAbs(d))
  IN  <<(s * n) \div g, (s * d) \div g>>

R(k) == <<k, 1>>
\* sums and comparisons go through the least common denominator so that the
\* intermediate products stay within TLC's integers
RAdd(a, b) ==
  LET g == GCD(a[2], b[2])
  IN  Frac(a[1] * (b[2] \div g) + b[1] * (a[2] \div g), (a[2] \div g) * b[2])
RSub(a, b) ==
  LET g == GCD(a[2], b[2])
  IN  Frac(a[1] * (b[2] \div g) - b[1] * (a[2] \div g), (a[2] \div g) * b[2])
\* cross-reduced so that intermediate products stay small
RMul(a, b) ==
  LET x == Frac(a[1], b[2])
      y == Frac(b[1], a[2])
  IN  Frac(x[1] * y[1], x[2] * y[2])
RDiv(a, b) == RMul(a, Frac(b[2], b[1]))
RLt(a, b) ==
  LET g == GCD(a[2], b[2])
  IN  a[1] * (b[2] \div g) < b[1] * (a[2] \div g)
RLe(a, b) ==
  LET g == GCD(a[2], b[2])
  IN  a[1] * (b[2] \div g) <= b[1] * (a[2] \div g)
RAbs(a) == <<IAbs(a[1]), a[2]>>
RMax(a, b) == IF RLt(a, b) THEN b ELSE a
RMin(a, b) == IF RLt(b, a) THEN b ELSE a
RFloor(a) == a[1] \div a[2]
\* Math.round: nearest integer, ties towards +infinity
RRound(a) == (2 * a[1] + a[2]) \div (2 * a[2])
IMin(a, b) == IF a < b THEN a ELSE b

(***************************************************************************)
(* Enumerations and constants                                              *)
(***************************************************************************)
RATIOS == {"1:1", "5:7", "9:16"}
SPACES == {"S", "M", "L"}
OUTPUT_LONG_SIDE == 2400
ENABLE_DRAGGABLE_PANEL == TRUE


\* image = null
NoImage == <<0, 0>>
\* no output canvas is live
NoRender == [kind |-> "none"]

(***************************************************************************)
(* caption-position tables and resolver                                    *)
(***************************************************************************)
CAPTION_Y_OFFSET_RATIO ==
  [r \in {"1:1", "5:7"} |->
     IF r = "1:1" THEN [S |-> R(0), M |-> R(0)]
                  ELSE [S |-> Frac(-12, 1000), M |-> Frac(-12, 1000)]]

CAPTION_Y_OFFSET_RATIO_57IMG ==
  [r \in {"1:1", "5:7"} |->
     IF r = "1:1" THEN [S |-> R(0), M |-> Frac(-3, 1000)]
                  ELSE [S |-> R(0), M |-> Frac(-15, 10000)]]

CAPTION_Y_OFFSET_RATIO_23IMG ==
  [r \in {"1:1", "5:7"} |->
     IF r = "1:1" THEN [S |-> R(0), M |-> R(0)]
                  ELSE [S |-> R(0), M |-> Frac(-3, 1000)]]

CAPTION_Y_OFFSET_RATIO_45IMG ==
  [r \in {"1:1", "5:7"} |->
     IF r = "1:1" THEN [S |-> R(0), M |-> R(0)]
                  ELSE [S |-> Frac(-45, 1000), M |-> Frac(-37, 1000)]]

CAPTION_DISTANCE_FROM_IMAGE_BOTTOM_L ==
  [r \in RATIOS |-> Frac(2, 100)]

\* table[ratio]?.[space] ?? 0
Lookup(table, r, s) ==
  IF r \in DOMAIN table /\ s \in DOMAIN table[r] THEN table[r][s] ELSE R(0)

\* Math.abs(imageWidth / imageHeight - tn / td) < tol, imageHeight # 0
\* the aspects a with |a - t| = tol exactly for which the double-precision
\* Math.abs(a - t) comes out below the double tol: <<a, t, tol>>
RoundedBelowTol ==
  { <<Frac(17, 20), Frac(3, 4), Frac(1, 10)>>,
    <<Frac(13, 20), Frac(3, 4), Frac(1, 10)>>,
    <<Frac(17, 30), Frac(2, 3), Frac(1, 10)>>,
    <<Frac(9, 10), Frac(4, 5), Frac(1, 10)>>,
    <<Frac(37, 60), Frac(2, 3), Frac(5, 100)>>,
    <<Frac(17, 20), Frac(4, 5), Frac(5, 100)>> }

\* Math.abs(w / h - tn / td) < tol in double precision: the exact comparison,
\* except on the edge of the band, where the rounding of the operands decides
AspectNear(w, h, tn, td, tol) ==
  \/ RLt(RAbs(RSub(Frac(w, h), Frac(tn, td))), tol)
  \/ /\ RAbs(RSub(Frac(w, h), Frac(tn, td))) = tol
     /\ <<Frac(w, h), Frac(tn, td), tol>> \in RoundedBelowTol

\* mutant: the 2:3 band is tested before the 5:7 band
OffsetTableOf_23First(imageWidth, imageHeight) ==
  IF imageWidth # 0 /\ imageHeight # 0
       /\ AspectNear(imageWidth, imageHeight, 2, 3, Frac(5, 100))
    THEN "23IMG"
  ELSE IF imageWidth # 0 /\ imageHeight # 0
       /\ AspectNear(imageWidth, imageHeight, 5, 7, Frac(1, 100))
    THEN "57IMG"
  ELSE IF imageWidth # 0 /\ imageHeight # 0
       /\ AspectNear(imageWidth, imageHeight, 4, 5, Frac(5, 100))
    THEN "45IMG"
  ELSE "BASE"

\* which offset table getCaptionYOffset reads for space S/M
OffsetTableOf(imageWidth, imageHeight) ==
  IF imageWidth # 0 /\ imageHeight # 0
       /\ AspectNear(imageWidth, imageHeight, 5, 7, Frac(1, 100))
    THEN "57IMG"
  ELSE IF imageWidth # 0 /\ imageHeight # 0
       /\ AspectNear(imageWidth, imageHeight, 2, 3, Frac(5, 100))
    THEN "23IMG"
  ELSE IF imageWidth # 0 /\ imageHeight # 0
       /\ AspectNear(imageWidth, imageHeight, 4, 5, Frac(5, 100))
    THEN "45IMG"
  ELSE "BASE"

\* the small-screen correction subtracted from the base-table entry
SmallScreenCorrection(r, s, canvasH) ==
  RAdd(IF r = "1:1" /\ s = "S" /\ canvasH # 0 /\ canvasH < 480
         THEN Frac(21, 1000) ELSE R(0),
       IF r = "5:7" /\ s = "S" /\ canvasH # 0 /\ canvasH < 672
         THEN Frac(12, 1000) ELSE R(0))

\* mutant: the small-screen correction is subtracted whichever table is read
getCaptionYOffset_CorrectAll(r, s, imageWidth, imageHeight, canvasH) ==
  IF s = "L"
    THEN IF r \in DOMAIN CAPTION_DISTANCE_FROM_IMAGE_BOTTOM_L
           THEN CAPTION_DISTANCE_FROM_IMAGE_BOTTOM_L[r] ELSE R(0)
  ELSE LET t == OffsetTableOf(imageWidth, imageHeight) IN
    RSub(IF t = "57IMG" THEN Lookup(CAPTION_Y_OFFSET_RATIO_57IMG, r, s)
         ELSE IF t = "23IMG" THEN Lookup(CAPTION_Y_OFFSET_RATIO_23IMG, r, s)
         ELSE IF t = "45IMG" THEN Lookup(CAPTION_Y_OFFSET_RATIO_45IMG, r, s)
         ELSE Lookup(CAPTION_Y_OFFSET_RATIO, r, s),
         SmallScreenCorrection(r, s, canvasH))

getCaptionYOffset(r, s, imageWidth, imageHeight, canvasH) ==
  IF s = "L"
    THEN IF r \in DOMAIN CAPTION_DISTANCE_FROM_IMAGE_BOTTOM_L
           THEN CAPTION_DISTANCE_FROM_IMAGE_BOTTOM_L[r] ELSE R(0)
  ELSE LET t == OffsetTableOf(imageWidth, imageHeight) IN
    IF t = "57IMG" THEN Lookup(CAPTION_Y_OFFSET_RATIO_57IMG, r, s)
    ELSE IF t = "23IMG" THEN Lookup(CAPTION_Y_OFFSET_RATIO_23IMG, r, s)
    ELSE IF t = "45IMG" THEN Lookup(CAPTION_Y_OFFSET_RATIO_45IMG, r, s)
    ELSE RSub(Lookup(CAPTION_Y_OFFSET_RATIO, r, s),
              SmallScreenCorrection(r, s, canvasH))

\* mutant: the offset is scaled by the 672 reference height, not by canvasHeight
getCaptionYPosition_RefHeight(r, s, canvasHeight, padBottom, imageDrawTop, imageDrawHeight, captionHeight, imageWidth, imageHeight) ==
  IF r = "9:16"
    THEN RAdd(RAdd(imageDrawTop, imageDrawHeight),
              RMul(CAPTION_DISTANCE_FROM_IMAGE_BOTTOM_L["9:16"], R(canvasHeight)))
  ELSE IF s = "L"
    THEN RAdd(RAdd(imageDrawTop, imageDrawHeight),
              RMul(CAPTION_DISTANCE_FROM_IMAGE_BOTTOM_L[r], R(canvasHeight)))
  ELSE
    LET yOffsetRatio ==
          getCaptionYOffset(r, s, imageWidth, imageHeight, canvasHeight)
        yOffsetPx == RMul(yOffsetRatio, R(672))
    IN  RAdd(RSub(RSub(R(canvasHeight), RDiv(padBottom, R(2))),
                  RDiv(captionHeight, R(2))),
             yOffsetPx)

\* mutant: only Spaces L takes the fixed-distance branch
getCaptionYPosition_No916(r, s, canvasHeight, padBottom, imageDrawTop, imageDrawHeight, captionHeight, imageWidth, imageHeight) ==
  IF s = "L"
    THEN RAdd(RAdd(imageDrawTop, imageDrawHeight),
              RMul(CAPTION_DISTANCE_FROM_IMAGE_BOTTOM_L[r], R(canvasHeight)))
  ELSE
    LET yOffsetRatio ==
          getCaptionYOffset(r, s, imageWidth, imageHeight, canvasHeight)
        yOffsetPx == RMul(yOffsetRatio, R(canvasHeight))
    IN  RAdd(RSub(RSub(R(canvasHeight), RDiv(padBottom, R(2))),
                  RDiv(captionHeight, R(2))),
             yOffsetPx)

\* canvasHeight is an integer; padBottom, imageDrawTop, imageDrawHeight and
\* captionHeight are numbers
getCaptionYPosition(r, s, canvasHeight, padBottom, imageDrawTop, imageDrawHeight, captionHeight, imageWidth, imageHeight) ==
  IF r = "9:16"
    THEN RAdd(RAdd(imageDrawTop, imageDrawHeight),
              RMul(CAPTION_DISTANCE_FROM_IMAGE_BOTTOM_L["9:16"], R(canvasHeight)))
  ELSE IF s = "L"
    THEN RAdd(RAdd(imageDrawTop, imageDrawHeight),
              RMul(CAPTION_DISTANCE_FROM_IMAGE_BOTTOM_L[r], R(canvasHeight)))
  ELSE
    LET yOffsetRatio ==
          getCaptionYOffset(r, s, imageWidth, imageHeight, canvasHeight)
        yOffsetPx == RMul(yOffsetRatio, R(canvasHeight))
    IN  RAdd(RSub(RSub(R(canvasHeight), RDiv(padBottom, R(2))),
                  RDiv(captionHeight, R(2))),
             yOffsetPx)

isSupportedAspectRatio(width, height) ==
  \/ AspectNear(width, height, 3, 4, Frac(1, 10))
  \/ AspectNear(width, height, 2, 3, Frac(1, 10))
  \/ AspectNear(width, height, 4, 5, Frac(1, 10))

getImageAspectRatioType(width, height) ==
  IF AspectNear(width, height, 3, 4, Frac(5, 100)) THEN "3:4"
  ELSE IF AspectNear(width, height, 2, 3, Frac(5, 100)) THEN "2:3"
  ELSE IF AspectNear(width, height, 4, 5, Frac(5, 100)) THEN "4:5"
  ELSE "other"

(***************************************************************************)
(* Padding                                                                 *)
(***************************************************************************)
minPadBottomTable ==
  [r \in RATIOS |->
     [s \in SPACES |->
        IF r = "5:7" /\ s = "S" THEN Frac(1, 10) ELSE Frac(17, 100)]]

basePaddingOf(s) ==
  IF s = "S" THEN Frac(4, 100) ELSE IF s = "M" THEN Frac(8, 100)
  ELSE Frac(15, 100)

\* mutant: padRight is computed with the bottom fraction
getFramePadding_RightAsBottom(width, height, r, s) ==
  LET basePadding == basePaddingOf(s)
      minPadBottom == IF r \in DOMAIN minPadBottomTable
                           /\ s \in DOMAIN minPadBottomTable[r]
                        THEN minPadBottomTable[r][s] ELSE Frac(17, 100)
      extraBottom == RMax(R(0), RSub(minPadBottom, basePadding))
      shortSide == IMin(width, height)
      padTop0 == R(RRound(RMul(R(shortSide), basePadding)))
      padLeft == R(RRound(RMul(R(shortSide), basePadding)))
      padBottom == R(RRound(RMul(R(shortSide), RAdd(basePadding, extraBottom))))
      padRight == padBottom
      padTop == IF r = "9:16"
                  THEN IF s = "S"
                         THEN RMul(RMul(padTop0, Frac(25, 10)), Frac(18, 10))
                         ELSE RMul(padTop0, Frac(25, 10))
                  ELSE padTop0
  IN  [padTop |-> padTop, padLeft |-> padLeft, padRight |-> padRight,
       padBottom |-> padBottom]

\* mutant: the further 1.8 for 9:16 with Spaces S is left out
getFramePadding_SkipS18(width, height, r, s) ==
  LET basePadding == basePaddingOf(s)
      minPadBottom == IF r \in DOMAIN minPadBottomTable
                           /\ s \in DOMAIN minPadBottomTable[r]
                        THEN minPadBottomTable[r][s] ELSE Frac(17, 100)
      extraBottom == RMax(R(0), RSub(minPadBottom, basePadding))
      shortSide == IMin(width, height)
      padTop0 == R(RRound(RMul(R(shortSide), basePadding)))
      padLeft == R(RRound(RMul(R(shortSide), basePadding)))
      padRight == R(RRound(RMul(R(shortSide), basePadding)))
      padBottom == R(RRound(RMul(R(shortSide), RAdd(basePadding, extraBottom))))
      padTop == IF r = "9:16"
                  THEN IF s = "S"
                         THEN RMul(padTop0, Frac(25, 10))
                         ELSE RMul(padTop0, Frac(25, 10))
                  ELSE padTop0
  IN  [padTop |-> padTop, padLeft |-> padLeft, padRight |-> padRight,
       padBottom |-> padBottom]

\* mutant: padBottom gets no extra bottom fraction
getFramePadding_NoExtraBottom(width, height, r, s) ==
  LET basePadding == basePaddingOf(s)
      minPadBottom == IF r \in DOMAIN minPadBottomTable
                           /\ s \in DOMAIN minPadBottomTable[r]
                        THEN minPadBottomTable[r][s] ELSE Frac(17, 100)
      extraBottom == RMax(R(0), RSub(minPadBottom, basePadding))
      shortSide == IMin(width, height)
      padTop0 == R(RRound(RMul(R(shortSide), basePadding)))
      padLeft == R(RRound(RMul(R(shortSide), basePadding)))
      padRight == R(RRound(RMul(R(shortSide), basePadding)))
      padBottom == R(RRound(RMul(R(shortSide), basePadding)))
      padTop == IF r = "9:16"
                  THEN IF s = "S"
                         THEN RMul(RMul(padTop0, Frac(25, 10)), Frac(18, 10))
                         ELSE RMul(padTop0, Frac(25, 10))
                  ELSE padTop0
  IN  [padTop |-> padTop, padLeft |-> padLeft, padRight |-> padRight,
       padBottom |-> padBottom]

\* mutant: the 9:16 top multiplier is 25 instead of 2.5
getFramePadding_Top25(width, height, r, s) ==
  LET basePadding == basePaddingOf(s)
      minPadBottom == IF r \in DOMAIN minPadBottomTable
                           /\ s \in DOMAIN minPadBottomTable[r]
                        THEN minPadBottomTable[r][s] ELSE Frac(17, 100)
      extraBottom == RMax(R(0), RSub(minPadBottom, basePadding))
      shortSide == IMin(width, height)
      padTop0 == R(RRound(RMul(R(shortSide), basePadding)))
      padLeft == R(RRound(RMul(R(shortSide), basePadding)))
      padRight == R(RRound(RMul(R(shortSide), basePadding)))
      padBottom == R(RRound(RMul(R(shortSide), RAdd(basePadding, extraBottom))))
      padTop == IF r = "9:16"
                  THEN IF s = "S"
                         THEN RMul(RMul(padTop0, R(25)), Frac(18, 10))
                         ELSE RMul(padTop0, R(25))
                  ELSE padTop0
  IN  [padTop |-> padTop, padLeft |-> padLeft, padRight |-> padRight,
       padBottom |-> padBottom]

\* width, height integers; the result's fields are numbers
getFramePadding(width, height, r, s) ==
  LET basePadding == basePaddingOf(s)
      minPadBottom == IF r \in DOMAIN minPadBottomTable
                           /\ s \in DOMAIN minPadBottomTable[r]
                        THEN minPadBottomTable[r][s] ELSE Frac(17, 100)
      extraBottom == RMax(R(0), RSub(minPadBottom, basePadding))
      shortSide == IMin(width, height)
      padTop0 == R(RRound(RMul(R(shortSide), basePadding)))
      padLeft == R(RRound(RMul(R(shortSide), basePadding)))
      padRight == R(RRound(RMul(R(shortSide), basePadding)))
      padBottom == R(RRound(RMul(R(shortSide), RAdd(basePadding, extraBottom))))
      padTop == IF r = "9:16"
                  THEN IF s = "S"
                         THEN RMul(RMul(padTop0, Frac(25, 10)), Frac(18, 10))
                         ELSE RMul(padTop0, Frac(25, 10))
                  ELSE padTop0
  IN  [padTop |-> padTop, padLeft |-> padLeft, padRight |-> padRight,
       padBottom |-> padBottom]

(***************************************************************************)
(* Caption drawing: the geometry drawCaption computes                      *)
(***************************************************************************)
\* CAPTION_STYLE = { font1: 0.023, font2: 0.019, lineGap: 0.007 }
COLORS == {"white", "black", "retroblue", "snap", "auto"}
SNAP_COLORS == [pattern1 |-> "#00AD50", pattern2 |-> "#FF9900"]
RETROBLUE_COLORS == [pattern1 |-> "#0037A6", pattern2 |-> "#008080"]
DefaultAutoColor == "#e53e3e"

\* mutant: Snap pattern 2 resolves to the pattern 1 colour
getFrameColor_SnapAlwaysPattern1(c, auto, snap, retroblue) ==
  IF c = "" THEN "#dfdfdf"
  ELSE IF c = "white" THEN "#fff"
  ELSE IF c = "black" THEN "#111"
  ELSE IF c = "retroblue"
    THEN IF retroblue = 1 THEN RETROBLUE_COLORS.pattern1
         ELSE RETROBLUE_COLORS.pattern2
  ELSE IF c = "snap" THEN SNAP_COLORS.pattern1
  ELSE IF c = "auto" THEN auto
  ELSE "#dfdfdf"

getFrameColor(c, auto, snap, retroblue) ==
  IF c = "" THEN "#dfdfdf"
  ELSE IF c = "white" THEN "#fff"
  ELSE IF c = "black" THEN "#111"
  ELSE IF c = "retroblue"
    THEN IF retroblue = 1 THEN RETROBLUE_COLORS.pattern1
         ELSE RETROBLUE_COLORS.pattern2
  ELSE IF c = "snap"
    THEN IF snap = 1 THEN SNAP_COLORS.pattern1 ELSE SNAP_COLORS.pattern2
  ELSE IF c = "auto" THEN auto
  ELSE "#dfdfdf"

\* the pixel statistics of a picture.  The 2000x3000 picture of the model is
\* a grey one: its average sits on the yiq threshold, its centre just below,
\* and it has no bright saturated pixel, so the highlight strategy falls
\* back to '#e53e3e'.  Every other picture has a dark average, a light
\* centre and a saturated highlight.
getDominantColor(img) ==
  IF img = <<2000, 3000>> THEN "rgb(128,128,128)" ELSE "rgb(120,90,60)"
getCenterAverageColor(img) ==
  IF img = <<2000, 3000>> THEN "rgb(127,128,128)" ELSE "rgb(200,180,160)"
getHighlightColor(img) ==
  IF img = <<2000, 3000>> THEN "#e53e3e" ELSE "rgb(230,120,80)"

\* String.prototype.toLowerCase / toUpperCase, one character at a time
LowerChar(c) ==
  CASE c = "A" -> "a" [] c = "B" -> "b" [] c = "C" -> "c" [] c = "D" -> "d"
    [] c = "E" -> "e" [] c = "F" -> "f" [] c = "G" -> "g" [] c = "H" -> "h"
    [] c = "I" -> "i" [] c = "J" -> "j" [] c = "K" -> "k" [] c = "L" -> "l"
    [] c = "M" -> "m" [] c = "N" -> "n" [] c = "O" -> "o" [] c = "P" -> "p"
    [] c = "Q" -> "q" [] c = "R" -> "r" [] c = "S" -> "s" [] c = "T" -> "t"
    [] c = "U" -> "u" [] c = "V" -> "v" [] c = "W" -> "w" [] c = "X" -> "x"
    [] c = "Y" -> "y" [] c = "Z" -> "z" [] OTHER -> c
UpperChar(c) ==
  CASE c = "a" -> "A" [] c = "b" -> "B" [] c = "c" -> "C" [] c = "d" -> "D"
    [] c = "e" -> "E" [] c = "f" -> "F" [] c = "g" -> "G" [] c = "h" -> "H"
    [] c = "i" -> "I" [] c = "j" -> "J" [] c = "k" -> "K" [] c = "l" -> "L"
    [] c = "m" -> "M" [] c = "n" -> "N" [] c = "o" -> "O" [] c = "p" -> "P"
    [] c = "q" -> "Q" [] c = "r" -> "R" [] c = "s" -> "S" [] c = "t" -> "T"
    [] c = "u" -> "U" [] c = "v" -> "V" [] c = "w" -> "W" [] c = "x" -> "X"
    [] c = "y" -> "Y" [] c = "z" -> "Z" [] OTHER -> c

RECURSIVE ToLowerCase(_)
ToLowerCase(c) ==
  IF c = "" THEN ""
  ELSE LowerChar(SubSeq(c, 1, 1)) \o ToLowerCase(SubSeq(c, 2, Len(c)))

RECURSIVE ToUpperCase(_)
ToUpperCase(c) ==
  IF c = "" THEN ""
  ELSE UpperChar(SubSeq(c, 1, 1)) \o ToUpperCase(SubSeq(c, 2, Len(c)))

\* String.prototype.includes, startsWith, endsWith
Includes(str, sub) ==
  LET s == str
      t == sub
  IN  \E i \in 1..(Len(s) - Len(t) + 1) : SubSeq(s, i, i + Len(t) - 1) = t
StartsWith(str, sub) ==
  Len(str) >= Len(sub) /\ SubSeq(str, 1, Len(sub)) = sub
EndsWith(str, sub) ==
  Len(str) >= Len(sub) /\ SubSeq(str, Len(str) - Len(sub) + 1, Len(str)) = sub

\* str.replace(sub, ''): the first occurrence of sub is removed
RECURSIVE RemoveFirst(_, _)
RemoveFirst(str, sub) ==
  IF Len(str) < Len(sub) THEN str
  ELSE IF StartsWith(str, sub) THEN SubSeq(str, Len(sub) + 1, Len(str))
  ELSE SubSeq(str, 1, 1) \o RemoveFirst(SubSeq(str, 2, Len(str)), sub)

\* <<r, g, b>> parsed from a #RRGGBB string; <<>> for any other string
HexChannels(c) ==
  CASE c = "#dfdfdf" -> <<223, 223, 223>>
    [] c = "#0037A6" -> <<0, 55, 166>>
    [] c = "#008080" -> <<0, 128, 128>>
    [] c = "#00AD50" -> <<0, 173, 80>>
    [] c = "#FF9900" -> <<255, 153, 0>>
    [] c = "#e53e3e" -> <<229, 62, 62>>
    [] OTHER -> <<>>

\* the first three numbers of an rgb(...) string; <<>> for any other string
RgbChannels(c) ==
  CASE c = "rgb(120,90,60)" -> <<120, 90, 60>>
    [] c = "rgb(200,180,160)" -> <<200, 180, 160>>
    [] c = "rgb(230,120,80)" -> <<230, 120, 80>>
    [] c = "rgb(128,128,128)" -> <<128, 128, 128>>
    [] c = "rgb(127,128,128)" -> <<127, 128, 128>>
    [] OTHER -> <<>>

\* a threshold that sends yiq = 128 to the white text
YiqLight_Strict(ch) == ch[1] * 299 + ch[2] * 587 + ch[3] * 114 > 128 * 1000

\* yiq >= 128 with yiq = (r*299 + g*587 + b*114) / 1000
YiqLight(ch) == ch[1] * 299 + ch[2] * 587 + ch[3] * 114 >= 128 * 1000

getContrastColor(c) ==
  IF c = "#fff" \/ c = "#ffffff" THEN "#222"
  ELSE IF c = "#111" \/ c = "#000" \/ c = "#000000" THEN "#fff"
  ELSE IF ToLowerCase(c) = "#008080" THEN "#222"
  ELSE IF HexChannels(c) # <<>>
    THEN IF YiqLight(HexChannels(c)) THEN "#222" ELSE "#fff"
  ELSE IF RgbChannels(c) # <<>>
    THEN IF YiqLight(RgbChannels(c)) THEN "#222" ELSE "#fff"
  ELSE "#222"

CAPTION_STYLE ==
  [font1 |-> Frac(23, 1000), font2 |-> Frac(19, 1000), lineGap |-> Frac(7, 1000)]

NoCaption == [drawn |-> FALSE]

\* width, height: the numbers drawCaption is called with
drawCaption(width, height, padBottom, imageDrawTop, imageDrawHeight, frameColor, s, r, imageWidth, imageHeight) ==
  LET outputShortSide ==
        RMin(R(OUTPUT_LONG_SIDE),
             RMul(R(OUTPUT_LONG_SIDE),
                  IF r = "1:1" THEN R(1)
                  ELSE IF r = "5:7" THEN Frac(5, 7) ELSE Frac(9, 16)))
      scale == RDiv(R(IMin(width, height)), outputShortSide)
      baseFontPx1 ==
        RRound(RMul(RMul(outputShortSide, CAPTION_STYLE.font1), scale))
      baseFontPx2 ==
        RRound(RMul(RMul(outputShortSide, CAPTION_STYLE.font2), scale))
      lineGap ==
        RRound(RMul(RMul(outputShortSide, CAPTION_STYLE.lineGap), scale))
      totalHeight == baseFontPx1 + baseFontPx2 + lineGap
      yStart == getCaptionYPosition(r, s, height, padBottom, imageDrawTop,
                                    imageDrawHeight, R(totalHeight),
                                    imageWidth, imageHeight)
      isSnapColor == \/ frameColor = SNAP_COLORS.pattern1
                     \/ frameColor = SNAP_COLORS.pattern2
      isSnapPattern2 == frameColor = SNAP_COLORS.pattern2
      firstLineColor == IF isSnapPattern2 THEN "#E2211C"
                        ELSE IF isSnapColor THEN "#fff"
                        ELSE getContrastColor(frameColor)
      secondLineColor == IF isSnapPattern2 THEN "#E2211C"
                         ELSE IF isSnapColor THEN "#222"
                         ELSE firstLineColor
  IN  [drawn |-> TRUE, canvasHeight |-> height, padBottom |-> padBottom,
       imageDrawTop |-> imageDrawTop, imageDrawHeight |-> imageDrawHeight,
       captionHeight |-> totalHeight, yStart |-> yStart,
       firstLineColor |-> firstLineColor, firstLineAlpha |-> R(1),
       secondLineColor |-> secondLineColor,
       secondLineAlpha |-> IF isSnapColor THEN R(1) ELSE Frac(7, 10)]

HasCaption(lines) == lines[1] # "" \/ lines[2] # ""

(***************************************************************************)
(* Preview canvas size and the preview render (drawCanvas)                 *)
(***************************************************************************)
RatioPair(r) ==
  IF r = "1:1" THEN <<1, 1>> ELSE IF r = "5:7" THEN <<5, 7>> ELSE <<9, 16>>

\* handleResize: leftSpace = innerWidth - previewWidth - controllerWidth
ForceMobileOf(iw) == iw - 480 - 300 < 340

\* <<canvasW, canvasH>> of the preview canvas
CanvasSize(r, iw, fm) ==
  LET maxMobileW == RFloor(RMin(RMul(R(iw), Frac(80, 100)), R(300)))
      maxMobileH == 600
      rw == RatioPair(r)[1]
      rh == RatioPair(r)[2]
      mobileH0 == RRound(Frac(maxMobileW * rh, rw))
      mobilePreviewH == IF mobileH0 > maxMobileH THEN maxMobileH ELSE mobileH0
      mobilePreviewW == IF mobileH0 > maxMobileH
                          THEN RRound(Frac(maxMobileH * rw, rh))
                          ELSE maxMobileW
      baseW == 480
      baseH == RRound(Frac(baseW * 7, 5))
  IN  IF fm THEN <<mobilePreviewW, mobilePreviewH>>
      ELSE IF r = "1:1" THEN <<baseW, baseW>>
      ELSE IF r = "9:16" THEN <<RRound(Frac(baseH * 9, 16)), baseH>>
      ELSE <<baseW, baseH>>

\* contain-fit of an image of aspect w/h into drawW x drawH
ContainFit(imageWidth, imageHeight, drawW, drawH) ==
  LET imgAspect == Frac(imageWidth, imageHeight)
      frameAspect == RDiv(drawW, drawH)
  IN  IF RLt(frameAspect, imgAspect)
        THEN [targetW |-> drawW, targetH |-> RDiv(drawW, imgAspect)]
        ELSE [targetW |-> RMul(drawH, imgAspect), targetH |-> drawH]

is34Image(imageWidth, imageHeight) ==
  AspectNear(imageWidth, imageHeight, 3, 4, Frac(5, 100))
is45Image(imageWidth, imageHeight) ==
  AspectNear(imageWidth, imageHeight, 4, 5, Frac(5, 100))

\* drawCanvas with an image loaded: what is drawn on the preview canvas
drawCanvas(img, r, s, lines, frameColor, canvasW, canvasH) ==
  LET pad == getFramePadding(canvasW, canvasH, r, s)
      drawW == RSub(RSub(R(canvasW), pad.padLeft), pad.padRight)
      drawH == RSub(RSub(R(canvasH), pad.padTop), pad.padBottom)
      padTopForDraw == IF r = "9:16" /\ s = "L" THEN R(0) ELSE pad.padTop
      drawHForDraw == IF r = "9:16" /\ s = "L" THEN R(canvasH) ELSE drawH
      fit == ContainFit(img[1], img[2], drawW, drawHForDraw)
      left == RAdd(pad.padLeft, RDiv(RSub(drawW, fit.targetW), R(2)))
      top == IF \/ r = "9:16"
                \/ (is34Image(img[1], img[2]) /\ r = "5:7" /\ s = "L")
                \/ (is45Image(img[1], img[2]) /\ r = "5:7" /\ s = "L")
               THEN RAdd(padTopForDraw,
                         RDiv(RSub(drawHForDraw, fit.targetH), R(2)))
               ELSE padTopForDraw
  IN  [kind |-> "preview", width |-> canvasW, height |-> canvasH,
       frameColor |-> frameColor,
       padTop |-> pad.padTop, padLeft |-> pad.padLeft,
       padRight |-> pad.padRight, padBottom |-> pad.padBottom,
       left |-> left, top |-> top,
       targetW |-> fit.targetW, targetH |-> fit.targetH,
       caption |-> IF HasCaption(lines)
                     THEN drawCaption(canvasW, canvasH, pad.padBottom, top,
                                      fit.targetH, frameColor, s, r,
                                      img[1], img[2])
                     ELSE NoCaption]

(***************************************************************************)
(* Export render (Print onClick, synchronous part)                         *)
(***************************************************************************)
\* <<outputW, outputH>>
OutputSize(r) ==
  LET rw == RatioPair(r)[1]
      rh == RatioPair(r)[2]
      outputLong == OUTPUT_LONG_SIDE
  IN  <<IF rw >= rh THEN outputLong ELSE RRound(Frac(outputLong * rw, rh)),
        IF rh > rw THEN outputLong ELSE RRound(Frac(outputLong * rh, rw))>>

\* which of the three Print handlers is mounted
PanelOf(fm) ==
  IF fm THEN "mobile"
  ELSE IF ENABLE_DRAGGABLE_PANEL THEN "draggable" ELSE "fixed"

\* panel: "mobile" | "draggable" | "fixed"; isMobile: isMobileDevice();
\* canvasH: the preview canvas height in scope of the handler
PrintRender(panel, isMobile, img, r, s, lines, frameColorOut, canvasH) ==
  LET outputW == OutputSize(r)[1]
      outputH == OutputSize(r)[2]
      pad == getFramePadding(outputW, outputH, r, s)
      drawWOut == RSub(RSub(R(outputW), pad.padLeft), pad.padRight)
      drawHOut == RSub(RSub(R(outputH), pad.padTop), pad.padBottom)
      fit == ContainFit(img[1], img[2], drawWOut, drawHOut)
      left == RAdd(pad.padLeft, RDiv(RSub(drawWOut, fit.targetW), R(2)))
      centred == RAdd(pad.padTop, RDiv(RSub(drawHOut, fit.targetH), R(2)))
      top == IF panel = "draggable"
               THEN IF r = "9:16" THEN centred ELSE pad.padTop
               ELSE IF \/ r = "9:16"
                       \/ (is34Image(img[1], img[2]) /\ r = "5:7" /\ s = "L")
                       \/ (is45Image(img[1], img[2]) /\ r = "5:7" /\ s = "L")
                      THEN centred ELSE pad.padTop
      canvasHForCaption == IF isMobile THEN canvasH ELSE outputH
  IN  [kind |-> "export", panel |-> panel, frameColor |-> frameColorOut,
       width |-> outputW, height |-> outputH,
       padTop |-> pad.padTop, padLeft |-> pad.padLeft,
       padRight |-> pad.padRight, padBottom |-> pad.padBottom,
       left |-> left, top |-> top,
       targetW |-> fit.targetW, targetH |-> fit.targetH,
       caption |-> IF HasCaption(lines)
                     THEN drawCaption(outputW, canvasHForCaption, pad.padBottom,
                                      top, fit.targetH, frameColorOut, s, r,
                                      img[1], img[2])
                     ELSE NoCaption]

(***************************************************************************)
(* Caption text: camera name, exposure line, film scanner detection        *)
(***************************************************************************)
\* camera_aliases.json, with the entries its documentation gives; a key
\* without an entry reads as "" (undefined)
manufacturers(make) ==
  IF make = "RICOH IMAGING COMPANY, LTD." THEN "RICOH" ELSE ""
models(model) ==
  IF model = "ILCE-7M3" THEN "α7 III" ELSE ""
aliases(model) ==
  CASE model = "iPhone15,2" -> "iPhone 15 Pro"
    [] model = "DC-G9" -> "Panasonic G9 Pro"
    [] OTHER -> ""

\* film_scanners.json: scanner makers.  The asset is not among the sources;
\* one maker stands for the list.
filmScanners == {"NORITSU"}

\* a || b on strings
OrElse(a, b) == IF a # "" THEN a ELSE b

normalizeMake(make) ==
  IF make = "" THEN "" ELSE OrElse(manufacturers(make), make)

normalizeModel(model) ==
  IF model = "" THEN "" ELSE OrElse(models(model), model)

\* a camera name that always joins make and model
generateCameraName_NoDedup(make, model) ==
  IF model = "" THEN ""
  ELSE LET normalizedMake == normalizeMake(make)
           normalizedModel == normalizeModel(model)
       IN  IF normalizedMake # "" /\ normalizedModel # ""
             THEN normalizedMake \o " " \o normalizedModel
           ELSE OrElse(normalizedModel, OrElse(normalizedMake, ""))

generateCameraName(make, model) ==
  IF model = "" THEN ""
  ELSE LET normalizedMake == normalizeMake(make)
           normalizedModel == normalizeModel(model)
           makeLower == ToLowerCase(normalizedMake)
           modelLower == ToLowerCase(normalizedModel)
       IN  IF normalizedMake # "" /\ normalizedModel # ""
                /\ Includes(modelLower, makeLower)
             THEN normalizedModel
           ELSE IF normalizedMake # "" /\ normalizedModel # ""
                     /\ Includes(makeLower, modelLower)
             THEN normalizedMake
           ELSE IF normalizedMake # "" /\ normalizedModel # ""
             THEN normalizedMake \o " " \o normalizedModel
           ELSE OrElse(normalizedModel, OrElse(normalizedMake, ""))

getCameraName(make, model) ==
  IF model = "" THEN ""
  ELSE IF aliases(model) # "" THEN aliases(model)
  ELSE generateCameraName(make, model)

\* x.toFixed(1) for x >= 0
ToFixed1(x) ==
  LET tenths == RRound(RMul(x, R(10)))
  IN  ToString(tenths \div 10) \o "." \o ToString(tenths % 10)

\* exposure: a rational, <<0, 1>> when the tag is absent
getExposureString(exposure) ==
  IF exposure = R(0) THEN ""
  ELSE IF RLe(R(1), exposure) THEN ToFixed1(exposure) \o "s"
  ELSE "1/" \o ToString(RRound(RDiv(R(1), exposure))) \o "s"

getFNumberString(fNumber) ==
  IF fNumber = R(0) THEN ""
  ELSE LET rounded == ToFixed1(fNumber)
           displayValue == IF EndsWith(rounded, ".0")
                             THEN SubSeq(rounded, 1, Len(rounded) - 2)
                             ELSE rounded
       IN  "f" \o displayValue

\* parts.filter(Boolean).join(' / ')
RECURSIVE JoinNonEmpty(_)
JoinNonEmpty(parts) ==
  IF parts = <<>> THEN ""
  ELSE LET rest == JoinNonEmpty(Tail(parts))
       IN  IF Head(parts) = "" THEN rest
           ELSE IF rest = "" THEN Head(parts)
           ELSE Head(parts) \o " / " \o rest

\* caption lines whose first line is the bare camera name
getCaptionLines_NoPrefix(exif) ==
  LET camera == getCameraName(exif.Make, exif.Model)
      iso == IF exif.ISO # 0 THEN "ISO " \o ToString(exif.ISO) ELSE ""
  IN  <<camera,
        JoinNonEmpty(<<iso, getFNumberString(exif.FNumber),
                       getExposureString(exif.ExposureTime)>>)>>

getCaptionLines(exif) ==
  LET camera == getCameraName(exif.Make, exif.Model)
      line1 == IF camera # "" THEN "Shot on " \o camera ELSE ""
      iso == IF exif.ISO # 0 THEN "ISO " \o ToString(exif.ISO) ELSE ""
      fnum == getFNumberString(exif.FNumber)
      exp == getExposureString(exif.ExposureTime)
      settings == JoinNonEmpty(<<iso, fnum, exp>>)
  IN  <<line1, settings>>

isFilmScanner(manufacturer) ==
  /\ manufacturer # ""
  /\ \E scanner \in filmScanners :
       Includes(ToUpperCase(manufacturer), ToUpperCase(scanner))

isFilmScanExif(make, software) ==
  \/ isFilmScanner(make)
  \/ Includes(ToLowerCase(software), "negative lab pro")

\* the two pieces of caption line 1 that drawCaption draws side by side
SplitFirstLine(line) ==
  [shotOn |-> "Shot on ", cameraName |-> RemoveFirst(line, "Shot on ")]

(***************************************************************************)
(* Inputs                                                                  *)
(***************************************************************************)
\* a Print click can be repeated before the toBlob callback of the previous
\* one has run; the model keeps at most this many callbacks outstanding
MaxPendingBlobs == 1

\* uploaded pictures <<width, height>>: exact 3:4, 2:3, 4:5 and 5:7; near-3:4
\* pictures inside the 4:5 band, inside the 2:3 band and inside neither; a
\* narrow and a wide accepted picture; a picture on the upper edge of the
\* acceptance band; a square and a landscape picture
Images ==
  { <<3000, 4000>>, <<2000, 3000>>, <<4000, 5000>>, <<1000, 1400>>,
    <<3000, 3900>>, <<2840, 4000>>, <<2900, 4000>>, <<1140, 2000>>,
    <<1780, 2000>>, <<1800, 2000>>, <<1000, 1000>>, <<4000, 3000>> }

\* exifData: null, or the tags EXIF.getData read; an absent string tag is ""
\* and an absent number tag is 0
NoExif == [present |-> FALSE]
Exif(make, model, iso, fNumber, exposureTime, software) ==
  [present |-> TRUE, Make |-> make, Model |-> model, ISO |-> iso, FNumber |-> fNumber, ExposureTime |-> exposureTime, Software |-> software]

\* a picture without tags and a picture taken with a RICOH GR III
EmptyExif == Exif("", "", 0, R(0), R(0), "")
RicohExif == Exif("RICOH IMAGING COMPANY, LTD.", "GR III", 200, Frac(14, 5), Frac(1, 125), "")
ExifInputs == {EmptyExif, RicohExif}

\* pictures for the caption text: an alias with and without a make, a model
\* that contains the make in another case, a make that contains the model,
\* a translated model, a make alone, a model alone, and two film scans
PanelExifInputs ==
  { EmptyExif, RicohExif,
    Exif("Apple", "iPhone15,2", 64, Frac(9, 5), Frac(1, 60), ""),
    Exif("", "DC-G9", 0, R(0), R(0), ""),
    Exif("CANON", "Canon EOS 5D", 100, R(4), R(2), ""),
    Exif("Hasselblad X1D", "X1D", 0, Frac(16, 5), Frac(1, 4), ""),
    Exif("SONY", "ILCE-7M3", 0, R(0), Frac(5, 2), ""),
    Exif("SONY", "", 400, R(0), R(0), ""),
    Exif("", "GR III", 0, R(8), R(0), ""),
    Exif("Noritsu Koki", "EZ Controller", 0, R(0), R(0), ""),
    Exif("SONY", "ILCE-7M3", 100, R(8), Frac(1, 250), "Negative Lab Pro v2.4") }

\* texts typed into the manual caption inputs
ManualCameraInputs == {"", "Leica M6", "Shot on film"}
ManualPlaceInputs == {"", "Tokyo"}

\* what the EXIF callback computes from the tags, tabulated over the records
\* of the model: isFilmScanExif(exif.Make, exif.Software) and
\* getCaptionLines(exif)
AllExifInputs == ExifInputs \cup PanelExifInputs
ExifCallbackTable ==
  [e \in AllExifInputs |->
     [filmScan |-> isFilmScanExif(e.Make, e.Software),
      lines |-> getCaptionLines(e)]]

\* window.innerWidth: two phones and a desktop window
InnerWidths == {320, 375, 1280}

(***************************************************************************)
(* Component state                                                         *)
(***************************************************************************)
\* lastFetch before the service worker has seen a request
NoFetch == [kind |-> "none"]

\* the preview canvas after the drawCanvas effect has run
Preview ==
  IF canvasRef # "ok" THEN NoRender
  ELSE IF image = NoImage
    THEN [kind |-> "placeholder",
          frameColor |-> getFrameColor(color, autoColor, snapPattern,
                                       retrobluePattern)]
  ELSE drawCanvas(image, ratio, space, captionLines,
                  getFrameColor(color, autoColor, snapPattern,
                                retrobluePattern),
                  CanvasSize(ratio, innerWidth, forceMobile)[1],
                  CanvasSize(ratio, innerWidth, forceMobile)[2])

\* the state after construction, the preview canvas left open
ComponentInit ==
  /\ image = NoImage
  /\ space = "M"
  /\ ratio = "5:7"
  /\ captionLines = <<"", "">>
  /\ innerWidth \in InnerWidths
  /\ forceMobile = ForceMobileOf(innerWidth)
  /\ mobileDevice \in BOOLEAN
  /\ showErrorPopup = FALSE
  /\ printStatus = "idle"
  /\ showResetButton = FALSE
  /\ isPrintDisabled = FALSE
  /\ pendingBlobs = 0
  /\ exportRender = NoRender
  /\ color = ""
  /\ autoColor = DefaultAutoColor
  /\ snapPattern = 1
  /\ retrobluePattern = 1
  /\ autoPattern = 1
  /\ exifData = NoExif
  /\ isFilmScannerImage = FALSE
  /\ manualCamera = ""
  /\ manualPlace = ""
  /\ staticCache = {}
  /\ dynamicCache = {}
  /\ lastFetch = NoFetch

\* the canvas element is mounted and delivers its 2D context
Init == ComponentInit /\ canvasRef = "ok"

\* window resize: handleResize
handleResize(w) ==
  /\ innerWidth' = w
  /\ forceMobile' = ForceMobileOf(w)
  /\ exportRender' = NoRender
  /\ UNCHANGED <<image, ratio, space, captionLines, mobileDevice,
                 showErrorPopup, printStatus, showResetButton,
                 isPrintDisabled, pendingBlobs>>
  /\ UNCHANGED <<colourVars, exifData>>
  /\ UNCHANGED <<manualVars, canvasRef, swVars>>

\* mutant: a rejected picture is shown behind the error popup
handleFilesUpload_KeepsRejected(img, exif) ==
  /\ image = NoImage \/ ~forceMobile
  /\ IF ~isSupportedAspectRatio(img[1], img[2])
    THEN /\ showErrorPopup' = TRUE
         /\ image' = img
         /\ exportRender' = NoRender
         /\ UNCHANGED <<ratio, space, captionLines, innerWidth,
                        forceMobile, mobileDevice, printStatus,
                        showResetButton, isPrintDisabled, pendingBlobs>>
         /\ UNCHANGED <<colourVars, exifData, manualVars>>
    ELSE /\ image' = img
         /\ autoColor' = getDominantColor(img)
         /\ autoPattern' = 1
         /\ color' = IF color = "" THEN "white" ELSE color
         /\ exifData' = exif
         /\ isFilmScannerImage' = ExifCallbackTable[exif].filmScan
         /\ IF ExifCallbackTable[exif].filmScan
              THEN /\ manualCamera' = ""
                   /\ manualPlace' = ""
                   /\ captionLines' = <<"", "">>
              ELSE /\ captionLines' = ExifCallbackTable[exif].lines
                   /\ UNCHANGED <<manualCamera, manualPlace>>
         /\ exportRender' = NoRender
         /\ UNCHANGED <<ratio, space, innerWidth, forceMobile, mobileDevice,
                        showErrorPopup, printStatus, showResetButton,
                        isPrintDisabled, pendingBlobs>>
         /\ UNCHANGED <<snapPattern, retrobluePattern>>
  /\ UNCHANGED <<canvasRef, swVars>>

\* handleFilesUpload, img.onload and the EXIF callback.  The file dialog opens
\* from the placeholder only; the desktop preview also takes a dropped file
\* while a picture is shown.
handleFilesUpload(img, exif) ==
  /\ image = NoImage \/ ~forceMobile
  /\ IF ~isSupportedAspectRatio(img[1], img[2])
    THEN /\ showErrorPopup' = TRUE
         /\ exportRender' = NoRender
         /\ UNCHANGED <<image, ratio, space, captionLines, innerWidth,
                        forceMobile, mobileDevice, printStatus,
                        showResetButton, isPrintDisabled, pendingBlobs>>
         /\ UNCHANGED <<colourVars, exifData, manualVars>>
    ELSE /\ image' = img
         /\ autoColor' = getDominantColor(img)
         /\ autoPattern' = 1
         /\ color' = IF color = "" THEN "white" ELSE color
         /\ exifData' = exif
         /\ isFilmScannerImage' = ExifCallbackTable[exif].filmScan
         /\ IF ExifCallbackTable[exif].filmScan
              THEN /\ manualCamera' = ""
                   /\ manualPlace' = ""
                   /\ captionLines' = <<"", "">>
              ELSE /\ captionLines' = ExifCallbackTable[exif].lines
                   /\ UNCHANGED <<manualCamera, manualPlace>>
         /\ exportRender' = NoRender
         /\ UNCHANGED <<ratio, space, innerWidth, forceMobile, mobileDevice,
                        showErrorPopup, printStatus, showResetButton,
                        isPrintDisabled, pendingBlobs>>
         /\ UNCHANGED <<snapPattern, retrobluePattern>>
  /\ UNCHANGED <<canvasRef, swVars>>

\* RetroErrorPopup onClose
closeErrorPopup ==
  /\ showErrorPopup
  /\ showErrorPopup' = FALSE
  /\ exportRender' = NoRender
  /\ UNCHANGED <<image, ratio, space, captionLines, innerWidth, forceMobile,
                 mobileDevice, printStatus, showResetButton, isPrintDisabled,
                 pendingBlobs>>
  /\ UNCHANGED <<colourVars, exifData>>
  /\ UNCHANGED <<manualVars, canvasRef, swVars>>

\* a Ratio slider that re-enables Print and leaves the status at done
ratioOnChange_KeepsStatus(newRatio) ==
  /\ newRatio # ratio
  /\ IF isPrintDisabled
       THEN isPrintDisabled' = FALSE /\ UNCHANGED printStatus
       ELSE UNCHANGED <<isPrintDisabled, printStatus>>
  /\ ratio' = newRatio
  /\ exportRender' = NoRender
  /\ UNCHANGED <<image, space, captionLines, innerWidth, forceMobile,
                 mobileDevice, showErrorPopup, showResetButton, pendingBlobs>>
  /\ UNCHANGED <<colourVars, exifData>>
  /\ UNCHANGED <<manualVars, canvasRef, swVars>>

\* Ratio slider onChange
ratioOnChange(newRatio) ==
  /\ newRatio # ratio
  /\ IF isPrintDisabled
       THEN isPrintDisabled' = FALSE /\ printStatus' = "idle"
       ELSE UNCHANGED <<isPrintDisabled, printStatus>>
  /\ ratio' = newRatio
  /\ exportRender' = NoRender
  /\ UNCHANGED <<image, space, captionLines, innerWidth, forceMobile,
                 mobileDevice, showErrorPopup, showResetButton, pendingBlobs>>
  /\ UNCHANGED <<colourVars, exifData>>
  /\ UNCHANGED <<manualVars, canvasRef, swVars>>

\* Spaces slider onChange
spaceOnChange(newSpace) ==
  /\ newSpace # space
  /\ IF isPrintDisabled
       THEN isPrintDisabled' = FALSE /\ printStatus' = "idle"
       ELSE UNCHANGED <<isPrintDisabled, printStatus>>
  /\ space' = newSpace
  /\ exportRender' = NoRender
  /\ UNCHANGED <<image, ratio, captionLines, innerWidth, forceMobile,
                 mobileDevice, showErrorPopup, showResetButton, pendingBlobs>>
  /\ UNCHANGED <<colourVars, exifData>>
  /\ UNCHANGED <<manualVars, canvasRef, swVars>>

\* Cancel / Reset onClick
cancelOnClick ==
  /\ image' = NoImage
  /\ color' = "white"
  /\ autoColor' = DefaultAutoColor
  /\ snapPattern' = 1
  /\ retrobluePattern' = 1
  /\ autoPattern' = 1
  /\ exifData' = NoExif
  /\ captionLines' = <<"", "">>
  /\ isFilmScannerImage' = FALSE
  /\ UNCHANGED <<manualCamera, manualPlace>>
  /\ showResetButton' = FALSE
  /\ printStatus' = "idle"
  /\ isPrintDisabled' = FALSE
  /\ exportRender' = NoRender
  /\ UNCHANGED <<ratio, space, innerWidth, forceMobile, mobileDevice,
                 showErrorPopup, pendingBlobs>>
  /\ UNCHANGED <<canvasRef, swVars>>

\* the record of a Print click that returned before drawing anything
SkippedRender == [kind |-> "skipped"]

\* a Print click that exports without an export 2D context
printOnClick_IgnoresContext(outputCtxOk) ==
  /\ ~isPrintDisabled
  /\ IF canvasRef = "none" \/ image = NoImage
       THEN exportRender' = SkippedRender /\ UNCHANGED pendingBlobs
       ELSE /\ pendingBlobs < MaxPendingBlobs
            /\ exportRender' =
                 PrintRender(PanelOf(forceMobile), mobileDevice, image, ratio,
                             space, captionLines,
                             getFrameColor(color, autoColor, snapPattern,
                                           retrobluePattern),
                             CanvasSize(ratio, innerWidth, forceMobile)[2])
            /\ pendingBlobs' = pendingBlobs + 1
  /\ UNCHANGED <<image, ratio, space, captionLines, innerWidth, forceMobile,
                 mobileDevice, showErrorPopup, printStatus, showResetButton,
                 isPrintDisabled>>
  /\ UNCHANGED <<colourVars, exifData>>
  /\ UNCHANGED <<manualVars, canvasRef, swVars>>

\* Print onClick up to and including the toBlob call.  outputCtxOk: whether
\* the export canvas delivers a 2D context.  The button is disabled while the
\* lock is set; a click without canvas element, picture or context returns
\* at once.
printOnClick(outputCtxOk) ==
  /\ ~isPrintDisabled
  /\ IF canvasRef = "none" \/ image = NoImage \/ ~outputCtxOk
       THEN exportRender' = SkippedRender /\ UNCHANGED pendingBlobs
       ELSE /\ pendingBlobs < MaxPendingBlobs
            /\ exportRender' =
                 PrintRender(PanelOf(forceMobile), mobileDevice, image, ratio,
                             space, captionLines,
                             getFrameColor(color, autoColor, snapPattern,
                                           retrobluePattern),
                             CanvasSize(ratio, innerWidth, forceMobile)[2])
            /\ pendingBlobs' = pendingBlobs + 1
  /\ UNCHANGED <<image, ratio, space, captionLines, innerWidth, forceMobile,
                 mobileDevice, showErrorPopup, printStatus, showResetButton,
                 isPrintDisabled>>
  /\ UNCHANGED <<colourVars, exifData>>
  /\ UNCHANGED <<manualVars, canvasRef, swVars>>

\* the toBlob callback: download or share, then lock
toBlobCallback(blobOk) ==
  /\ pendingBlobs > 0
  /\ pendingBlobs' = pendingBlobs - 1
  /\ IF blobOk
       THEN /\ printStatus' = "done"
            /\ showResetButton' = TRUE
            /\ isPrintDisabled' = TRUE
       ELSE UNCHANGED <<printStatus, showResetButton, isPrintDisabled>>
  /\ UNCHANGED <<image, ratio, space, captionLines, innerWidth, forceMobile,
                 mobileDevice, showErrorPopup, exportRender>>
  /\ UNCHANGED <<colourVars, exifData>>
  /\ UNCHANGED <<manualVars, canvasRef, swVars>>

\* a Colour swatch whose repeated auto selection knows two strategies only
handleColorChange_AutoTwoPatterns(newColor) ==
  /\ IF isPrintDisabled
       THEN isPrintDisabled' = FALSE /\ printStatus' = "idle"
       ELSE UNCHANGED <<isPrintDisabled, printStatus>>
  /\ IF newColor = "retroblue"
       THEN /\ IF color = "retroblue"
                 THEN /\ retrobluePattern' =
                           (IF retrobluePattern = 1 THEN 2 ELSE 1)
                      /\ UNCHANGED color
                 ELSE retrobluePattern' = 1 /\ color' = "retroblue"
            /\ UNCHANGED <<snapPattern, autoPattern, autoColor>>
     ELSE IF newColor = "snap"
       THEN /\ IF color = "snap"
                 THEN /\ snapPattern' = (IF snapPattern = 1 THEN 2 ELSE 1)
                      /\ UNCHANGED color
                 ELSE snapPattern' = 1 /\ color' = "snap"
            /\ UNCHANGED <<retrobluePattern, autoPattern, autoColor>>
     ELSE IF newColor = "auto"
       THEN LET nextPattern == IF autoPattern = 1 THEN 2 ELSE 1
            IN  /\ color' = "auto"
                /\ autoPattern' = IF color = "auto" THEN nextPattern ELSE 1
                /\ autoColor' =
                     IF image = NoImage THEN autoColor
                     ELSE IF color # "auto" \/ nextPattern = 1
                       THEN getDominantColor(image)
                     ELSE IF nextPattern = 2
                       THEN getCenterAverageColor(image)
                     ELSE getHighlightColor(image)
                /\ UNCHANGED <<snapPattern, retrobluePattern>>
     ELSE /\ color' = newColor
          /\ UNCHANGED <<snapPattern, retrobluePattern, autoPattern,
                         autoColor>>
  /\ exportRender' = NoRender
  /\ UNCHANGED <<image, ratio, space, captionLines, innerWidth, forceMobile,
                 mobileDevice, showErrorPopup, showResetButton, pendingBlobs,
                 exifData>>
  /\ UNCHANGED <<manualVars, canvasRef, swVars>>

\* a Colour swatch that samples the whole picture whatever the strategy
handleColorChange_StaleAutoColor(newColor) ==
  /\ IF isPrintDisabled
       THEN isPrintDisabled' = FALSE /\ printStatus' = "idle"
       ELSE UNCHANGED <<isPrintDisabled, printStatus>>
  /\ IF newColor = "retroblue"
       THEN /\ IF color = "retroblue"
                 THEN /\ retrobluePattern' =
                           (IF retrobluePattern = 1 THEN 2 ELSE 1)
                      /\ UNCHANGED color
                 ELSE retrobluePattern' = 1 /\ color' = "retroblue"
            /\ UNCHANGED <<snapPattern, autoPattern, autoColor>>
     ELSE IF newColor = "snap"
       THEN /\ IF color = "snap"
                 THEN /\ snapPattern' = (IF snapPattern = 1 THEN 2 ELSE 1)
                      /\ UNCHANGED color
                 ELSE snapPattern' = 1 /\ color' = "snap"
            /\ UNCHANGED <<retrobluePattern, autoPattern, autoColor>>
     ELSE IF newColor = "auto"
       THEN LET nextPattern == IF autoPattern = 1 THEN 2
                               ELSE IF autoPattern = 2 THEN 3 ELSE 1
            IN  /\ color' = "auto"
                /\ autoPattern' = IF color = "auto" THEN nextPattern ELSE 1
                /\ autoColor' =
                     IF image = NoImage THEN autoColor
                     ELSE getDominantColor(image)
                /\ UNCHANGED <<snapPattern, retrobluePattern>>
     ELSE /\ color' = newColor
          /\ UNCHANGED <<snapPattern, retrobluePattern, autoPattern,
                         autoColor>>
  /\ exportRender' = NoRender
  /\ UNCHANGED <<image, ratio, space, captionLines, innerWidth, forceMobile,
                 mobileDevice, showErrorPopup, showResetButton, pendingBlobs,
                 exifData>>
  /\ UNCHANGED <<manualVars, canvasRef, swVars>>

\* a Colour swatch onClick
handleColorChange(newColor) ==
  /\ IF isPrintDisabled
       THEN isPrintDisabled' = FALSE /\ printStatus' = "idle"
       ELSE UNCHANGED <<isPrintDisabled, printStatus>>
  /\ IF newColor = "retroblue"
       THEN /\ IF color = "retroblue"
                 THEN /\ retrobluePattern' =
                           (IF retrobluePattern = 1 THEN 2 ELSE 1)
                      /\ UNCHANGED color
                 ELSE retrobluePattern' = 1 /\ color' = "retroblue"
            /\ UNCHANGED <<snapPattern, autoPattern, autoColor>>
     ELSE IF newColor = "snap"
       THEN /\ IF color = "snap"
                 THEN /\ snapPattern' = (IF snapPattern = 1 THEN 2 ELSE 1)
                      /\ UNCHANGED color
                 ELSE snapPattern' = 1 /\ color' = "snap"
            /\ UNCHANGED <<retrobluePattern, autoPattern, autoColor>>
     ELSE IF newColor = "auto"
       THEN LET nextPattern == IF autoPattern = 1 THEN 2
                               ELSE IF autoPattern = 2 THEN 3 ELSE 1
            IN  /\ color' = "auto"
                /\ autoPattern' = IF color = "auto" THEN nextPattern ELSE 1
                /\ autoColor' =
                     IF image = NoImage THEN autoColor
                     ELSE IF color # "auto" \/ nextPattern = 1
                       THEN getDominantColor(image)
                     ELSE IF nextPattern = 2
                       THEN getCenterAverageColor(image)
                     ELSE getHighlightColor(image)
                /\ UNCHANGED <<snapPattern, retrobluePattern>>
     ELSE /\ color' = newColor
          /\ UNCHANGED <<snapPattern, retrobluePattern, autoPattern,
                         autoColor>>
  /\ exportRender' = NoRender
  /\ UNCHANGED <<image, ratio, space, captionLines, innerWidth, forceMobile,
                 mobileDevice, showErrorPopup, showResetButton, pendingBlobs,
                 exifData>>
  /\ UNCHANGED <<manualVars, canvasRef, swVars>>

\* Camera input onChange of the manual caption, with the effect that
\* copies the manual texts into captionLines
manualCameraOnChange(text) ==
  /\ isFilmScannerImage
  /\ text # manualCamera
  /\ manualCamera' = text
  /\ captionLines' = <<IF text # "" THEN "Shot on " \o text ELSE "",
                       OrElse(manualPlace, "")>>
  /\ exportRender' = NoRender
  /\ UNCHANGED <<image, ratio, space, innerWidth, forceMobile, mobileDevice,
                 showErrorPopup, printStatus, showResetButton,
                 isPrintDisabled, pendingBlobs>>
  /\ UNCHANGED <<colourVars, exifData, isFilmScannerImage, manualPlace>>
  /\ UNCHANGED <<canvasRef, swVars>>

\* Place input onChange of the manual caption, with the same effect
manualPlaceOnChange(text) ==
  /\ isFilmScannerImage
  /\ text # manualPlace
  /\ manualPlace' = text
  /\ captionLines' = <<IF manualCamera # ""
                         THEN "Shot on " \o manualCamera ELSE "",
                       OrElse(text, "")>>
  /\ exportRender' = NoRender
  /\ UNCHANGED <<image, ratio, space, innerWidth, forceMobile, mobileDevice,
                 showErrorPopup, printStatus, showResetButton,
                 isPrintDisabled, pendingBlobs>>
  /\ UNCHANGED <<colourVars, exifData, isFilmScannerImage, manualCamera>>
  /\ UNCHANGED <<canvasRef, swVars>>

Next ==
  \/ \E w \in InnerWidths : handleResize(w)
  \/ \E img \in Images, exif \in ExifInputs : handleFilesUpload(img, exif)
  \/ closeErrorPopup
  \/ \E r \in RATIOS : ratioOnChange(r)
  \/ \E s \in SPACES : spaceOnChange(s)
  \/ cancelOnClick
  \/ printOnClick(TRUE)
  \/ \E ok \in BOOLEAN : toBlobCallback(ok)

Spec == Init /\ [][Next]_vars

\* the component with the Colour swatches in use, over fewer pictures, window
\* widths, ratios and Spaces
ColorImages == {<<3000, 4000>>, <<2000, 3000>>, <<1000, 1000>>}
ColorInnerWidths == {375, 1280}
ColorRatios == {"1:1", "5:7"}
ColorSpaces == {"M", "L"}

ColorInit == Init /\ innerWidth \in ColorInnerWidths /\ ~mobileDevice

ColorNext ==
  \/ \E w \in ColorInnerWidths : handleResize(w)
  \/ \E img \in ColorImages, exif \in ExifInputs :
       handleFilesUpload(img, exif)
  \/ closeErrorPopup
  \/ \E r \in ColorRatios : ratioOnChange(r)
  \/ \E s \in ColorSpaces : spaceOnChange(s)
  \/ \E c \in COLORS : handleColorChange(c)
  \/ cancelOnClick
  \/ printOnClick(TRUE)
  \/ \E ok \in BOOLEAN : toBlobCallback(ok)

ColorSpec == ColorInit /\ [][ColorNext]_vars

\* the panel with the caption texts in use, and with a preview canvas or an
\* export canvas that may not deliver its 2D context
PanelImages == {<<3000, 4000>>, <<1000, 1000>>}
PanelInnerWidths == {375, 1280}

PanelInit ==
  /\ ComponentInit
  /\ innerWidth \in PanelInnerWidths
  /\ canvasRef \in {"ok", "noContext", "none"}

PanelNext ==
  \/ \E img \in PanelImages, exif \in PanelExifInputs :
       handleFilesUpload(img, exif)
  \/ closeErrorPopup
  \/ \E text \in ManualCameraInputs : manualCameraOnChange(text)
  \/ \E text \in ManualPlaceInputs : manualPlaceOnChange(text)
  \/ cancelOnClick
  \/ \E outputCtxOk \in BOOLEAN : printOnClick(outputCtxOk)
  \/ \E ok \in BOOLEAN : toBlobCallback(ok)

PanelSpec == PanelInit /\ [][PanelNext]_vars

(***************************************************************************)
(* Service worker: install and the fetch event listener                    *)
(***************************************************************************)
STATIC_ASSETS ==
  { "/", "/index.html", "/manifest.json", "/favicon.ico",
    "/apple-touch-icon.png", "/icon-48x48.png", "/icon-70x70.png",
    "/icon-72x72.png", "/icon-76x76.png", "/icon-96x96.png",
    "/icon-120x120.png", "/icon-144x144.png", "/icon-150x150.png",
    "/icon-152x152.png", "/icon-167x167.png", "/icon-180x180.png",
    "/icon-192x192.png", "/icon-310x310.png", "/icon-512x512.png",
    "/maskable-icon.png",
    "https://unpkg.com/three@0.157.0/examples/fonts/helvetiker_bold.typeface.json" }

\* a request: url is what a cache is keyed by (origin-relative for the
\* worker's own origin), pathname is new URL(request.url).pathname
Request(method, url, pathname, destination) ==
  [method |-> method, url |-> url, pathname |-> pathname, destination |-> destination]

SWRequests ==
  { Request("GET", "/", "/", "document"),
    Request("GET", "/index.html", "/index.html", "document"),
    Request("GET", "/static/js/main.js", "/static/js/main.js", "script"),
    Request("GET", "/static/media/logo.png", "/static/media/logo.png", "image"),
    Request("GET", "/manifest.json", "/manifest.json", "manifest"),
    Request("GET", "https://unpkg.com/three@0.157.0/examples/fonts/helvetiker_bold.typeface.json", "/three@0.157.0/examples/fonts/helvetiker_bold.typeface.json", "font"),
    Request("GET", "/photos/a.png", "/photos/a.png", "image"),
    Request("GET", "/api/items", "/api/items", "empty"),
    Request("GET", "/about", "/about", "document"),
    Request("POST", "/api/items", "/api/items", "empty") }

\* what fetch(request) does: it rejects, or resolves with a response
NetworkError == [rejected |-> TRUE, status |-> 0]
NetworkResponse(status) == [rejected |-> FALSE, status |-> status]
NetworkOutcomes ==
  {NetworkError, NetworkResponse(200), NetworkResponse(404), NetworkResponse(500)}

\* a cache holds entries <<key, status of the stored response>>
CacheEntry(key, status) == [key |-> key, status |-> status]

\* caches.match(key): the entries stored under the key in any cache
cachesMatch(key) == {e \in staticCache \cup dynamicCache : e.key = key}

\* cache.put(key, response): the entry under the key is replaced
cachePut(cache, key, status) ==
  {e \in cache : e.key # key} \cup {CacheEntry(key, status)}

\* the branch of the fetch listener that takes the request
fetchBranch(req) ==
  IF req.pathname = "/" \/ req.pathname = "/index.html" THEN "index"
  ELSE IF StartsWith(req.pathname, "/static/") THEN "static"
  ELSE IF req.pathname \in STATIC_ASSETS \/ req.url \in STATIC_ASSETS
    THEN "asset"
  ELSE IF req.destination = "image" THEN "image"
  ELSE IF StartsWith(req.pathname, "/api/") THEN "api"
  ELSE "default"

\* install: cache.addAll(STATIC_ASSETS) stores every asset or none; then the
\* worker is activated and handles fetch events
swInstall(addAllOk) ==
  /\ addAllOk
  /\ staticCache' =
       {e \in staticCache : e.key \notin STATIC_ASSETS}
         \cup {CacheEntry(k, 200) : k \in STATIC_ASSETS}
  /\ lastFetch' = [kind |-> "installed"]
  /\ UNCHANGED dynamicCache
  /\ UNCHANGED <<image, ratio, space, captionLines, innerWidth, forceMobile,
                 mobileDevice, showErrorPopup, printStatus, showResetButton,
                 isPrintDisabled, pendingBlobs, exportRender>>
  /\ UNCHANGED <<colourVars, exifData, manualVars, canvasRef>>

\* Cache Storage emptied by the browser while the worker stays active
cacheStorageCleared ==
  /\ lastFetch.kind # "none"
  /\ staticCache \cup dynamicCache # {}
  /\ staticCache' = {}
  /\ dynamicCache' = {}
  /\ lastFetch' = [kind |-> "installed"]
  /\ UNCHANGED <<image, ratio, space, captionLines, innerWidth, forceMobile,
                 mobileDevice, showErrorPopup, printStatus, showResetButton,
                 isPrintDisabled, pendingBlobs, exportRender>>
  /\ UNCHANGED <<colourVars, exifData, manualVars, canvasRef>>

\* the handling of one request: steps lists what was consulted, in order
Handled(req, steps, source, status, written) ==
  [kind |-> "handled", request |-> req, steps |-> steps, response |-> [source |-> source, status |-> status], written |-> written]

\* a fetch listener that stores whatever the network answers
swFetch_CachesAnyStatus(req, net) ==
  /\ lastFetch.kind # "none"
  /\ LET branch == fetchBranch(req)
         key == IF branch = "index" THEN "/index.html" ELSE req.url
         hit == cachesMatch(key)
         cacheFirst == branch \in {"index", "static", "asset", "image"}
         toStatic == branch \in {"index", "static", "asset"}
         store == ~net.rejected
         written == IF store
                      THEN {[cache |-> IF toStatic THEN "static" ELSE "dynamic",
                             key |-> key, status |-> net.status]}
                      ELSE {}
     IN  IF req.method # "GET"
           THEN /\ lastFetch' = [kind |-> "passthrough", request |-> req]
                /\ UNCHANGED <<staticCache, dynamicCache>>
         ELSE IF cacheFirst /\ hit # {}
           THEN /\ lastFetch' =
                     Handled(req, <<"cache">>, "cache",
                             (CHOOSE e \in hit : TRUE).status, {})
                /\ UNCHANGED <<staticCache, dynamicCache>>
         ELSE /\ lastFetch' =
                   IF cacheFirst
                     THEN IF ~net.rejected
                            THEN Handled(req, <<"cache", "network">>,
                                         "network", net.status, written)
                          ELSE IF branch = "image"
                            THEN Handled(req, <<"cache", "network">>,
                                         "synthetic", 404, {})
                          ELSE Handled(req, <<"cache", "network">>,
                                       "none", 0, {})
                   ELSE IF ~net.rejected
                     THEN Handled(req, <<"network">>, "network", net.status,
                                  written)
                   ELSE IF hit # {}
                     THEN Handled(req, <<"network", "cache">>, "cache",
                                  (CHOOSE e \in hit : TRUE).status, {})
                   ELSE Handled(req, <<"network", "cache">>, "none", 0, {})
              /\ staticCache' = IF store /\ toStatic
                                  THEN cachePut(staticCache, key, net.status)
                                  ELSE staticCache
              /\ dynamicCache' = IF store /\ ~toStatic
                                   THEN cachePut(dynamicCache, key, net.status)
                                   ELSE dynamicCache
  /\ UNCHANGED <<image, ratio, space, captionLines, innerWidth, forceMobile,
                 mobileDevice, showErrorPopup, printStatus, showResetButton,
                 isPrintDisabled, pendingBlobs, exportRender>>
  /\ UNCHANGED <<colourVars, exifData, manualVars, canvasRef>>

\* the fetch event listener with its respondWith promise settled; net is
\* what fetch(request) does if the listener calls it
swFetch(req, net) ==
  /\ lastFetch.kind # "none"
  /\ LET branch == fetchBranch(req)
         key == IF branch = "index" THEN "/index.html" ELSE req.url
         hit == cachesMatch(key)
         cacheFirst == branch \in {"index", "static", "asset", "image"}
         toStatic == branch \in {"index", "static", "asset"}
         store == ~net.rejected /\ net.status = 200
         written == IF store
                      THEN {[cache |-> IF toStatic THEN "static" ELSE "dynamic",
                             key |-> key, status |-> net.status]}
                      ELSE {}
     IN  IF req.method # "GET"
           THEN /\ lastFetch' = [kind |-> "passthrough", request |-> req]
                /\ UNCHANGED <<staticCache, dynamicCache>>
         ELSE IF cacheFirst /\ hit # {}
           THEN /\ lastFetch' =
                     Handled(req, <<"cache">>, "cache",
                             (CHOOSE e \in hit : TRUE).status, {})
                /\ UNCHANGED <<staticCache, dynamicCache>>
         ELSE /\ lastFetch' =
                   IF cacheFirst
                     THEN IF ~net.rejected
                            THEN Handled(req, <<"cache", "network">>,
                                         "network", net.status, written)
                          ELSE IF branch = "image"
                            THEN Handled(req, <<"cache", "network">>,
                                         "synthetic", 404, {})
                          ELSE Handled(req, <<"cache", "network">>,
                                       "none", 0, {})
                   ELSE IF ~net.rejected
                     THEN Handled(req, <<"network">>, "network", net.status,
                                  written)
                   ELSE IF hit # {}
                     THEN Handled(req, <<"network", "cache">>, "cache",
                                  (CHOOSE e \in hit : TRUE).status, {})
                   ELSE Handled(req, <<"network", "cache">>, "none", 0, {})
              /\ staticCache' = IF store /\ toStatic
                                  THEN cachePut(staticCache, key, net.status)
                                  ELSE staticCache
              /\ dynamicCache' = IF store /\ ~toStatic
                                   THEN cachePut(dynamicCache, key, net.status)
                                   ELSE dynamicCache
  /\ UNCHANGED <<image, ratio, space, captionLines, innerWidth, forceMobile,
                 mobileDevice, showErrorPopup, printStatus, showResetButton,
                 isPrintDisabled, pendingBlobs, exportRender>>
  /\ UNCHANGED <<colourVars, exifData, manualVars, canvasRef>>

\* the service worker on its own, under a page that is left alone
SWInit == Init /\ innerWidth = 1280 /\ ~mobileDevice

SWNext ==
  \/ \E addAllOk \in BOOLEAN : swInstall(addAllOk)
  \/ cacheStorageCleared
  \/ \E req \in SWRequests, net \in NetworkOutcomes : swFetch(req, net)

SWSpec == SWInit /\ [][SWNext]_vars

TypeOK ==
  /\ image \in Images \cup {NoImage}
  /\ ratio \in RATIOS
  /\ space \in SPACES
  /\ forceMobile = ForceMobileOf(innerWidth)
  /\ pendingBlobs \in 0..MaxPendingBlobs
  /\ color \in COLORS \cup {""}
  /\ snapPattern \in {1, 2}
  /\ retrobluePattern \in {1, 2}
  /\ autoPattern \in {1, 2, 3}
  /\ isFilmScannerImage \in BOOLEAN
  /\ canvasRef \in {"ok", "noContext", "none"}
  /\ exportRender.kind \in {"none", "skipped", "export"}

(***************************************************************************)
(* Renders that exist in a state                                           *)
(***************************************************************************)
LiveRenders ==
  (IF image # NoImage THEN {Preview} ELSE {})
    \cup (IF exportRender.kind = "export" THEN {exportRender} ELSE {})

ExportLive == exportRender.kind = "export"

InsidePaddedInterior(rd) ==
  /\ RLe(rd.padLeft, rd.left)
  /\ RLe(RAdd(rd.left, rd.targetW), RSub(R(rd.width), rd.padRight))
  /\ RLe(rd.padTop, rd.top)
  /\ RLe(RAdd(rd.top, rd.targetH), RSub(R(rd.height), rd.padBottom))

\* C1: every preview render and every export render draws the image inside
\* the padded interior and with the source's width/height
C1_ImageInsidePaddedInterior ==
  \A rd \in LiveRenders :
    /\ InsidePaddedInterior(rd)
    /\ RDiv(rd.targetW, rd.targetH) = Frac(image[1], image[2])

\* C2: in every render with a caption the anchor lies at or below the bottom
\* edge of the drawn image
C2_CaptionBelowImage ==
  \A rd \in LiveRenders :
    rd.caption.drawn =>
      /\ RLt(rd.top, rd.caption.yStart)
      /\ RLe(RAdd(rd.top, rd.targetH), rd.caption.yStart)

\* |a - b| < tol * min(|a|, |b|)
RelErrLt(a, b, tol) ==
  RLt(RAbs(RSub(a, b)), RMul(tol, RMin(RAbs(a), RAbs(b))))

\* the case of C3: 5:7, M, a 3:4 picture, the 480x672 preview and an export
\* whose anchor was computed for the canvas height 2400
C3_Case ==
  /\ ratio = "5:7" /\ space = "M" /\ image = <<3000, 4000>>
  /\ Preview.width = 480 /\ Preview.height = 672
  /\ ExportLive /\ exportRender.caption.drawn
  /\ exportRender.caption.canvasHeight = 2400

\* each padding and the anchor, as a fraction of its canvas height, agrees
\* between preview and export within padTol resp. anchorTol
ScaleInvariantWithin(padTol, anchorTol) ==
  LET pv == Preview
      ex == exportRender
      hp == R(pv.height)
      he == R(ex.height)
  IN  /\ pv.height = 672 /\ pv.width = 480
      /\ ex.height = 2400 /\ ex.width = 1714
      /\ RelErrLt(RDiv(pv.padTop, hp), RDiv(ex.padTop, he), padTol)
      /\ RelErrLt(RDiv(pv.padLeft, hp), RDiv(ex.padLeft, he), padTol)
      /\ RelErrLt(RDiv(pv.padRight, hp), RDiv(ex.padRight, he), padTol)
      /\ RelErrLt(RDiv(pv.padBottom, hp), RDiv(ex.padBottom, he), padTol)
      /\ RelErrLt(RDiv(pv.caption.yStart, hp), RDiv(ex.caption.yStart, he),
                  anchorTol)

C4_PreviewExportSamePlacement ==
  ExportLive =>
    LET pv == Preview
        ex == exportRender
    IN  /\ RLt(RAbs(RSub(RDiv(pv.top, R(pv.height)),
                         RDiv(ex.top, R(ex.height)))), Frac(1, 100))
        /\ RLt(RAbs(RSub(RDiv(pv.targetH, R(pv.height)),
                         RDiv(ex.targetH, R(ex.height)))), Frac(1, 100))

\* C5: the export's caption anchor is resolved for the export surface:
\* canvasHeight = outputH, the export padBottom and the export image rectangle
C5_ExportCaptionUsesExportSurface ==
  (ExportLive /\ exportRender.caption.drawn) =>
    /\ exportRender.caption.canvasHeight = exportRender.height
    /\ exportRender.caption.padBottom = exportRender.padBottom
    /\ exportRender.caption.imageDrawTop = exportRender.top
    /\ exportRender.caption.imageDrawHeight = exportRender.targetH

\* the pictures isSupportedAspectRatio lets through, and the others
AcceptedImages == {i \in Images : isSupportedAspectRatio(i[1], i[2])}
RejectedImages == Images \ AcceptedImages

\* C6: the fixed-distance regime applies exactly for 9:16 or Spaces L: the
\* anchor is imageDrawTop + imageDrawHeight + 0.02 x canvasHeight for every
\* ratio, whatever padBottom, captionHeight, picture and (for 9:16) Spaces
\* are; otherwise the anchor is the padding-centred one and moves with
\* padBottom and captionHeight
C6_FixedDistanceRegime ==
  \A rd \in LiveRenders :
    rd.caption.drawn =>
      LET c == rd.caption
          H == c.canvasHeight
          fixed == RAdd(RAdd(c.imageDrawTop, c.imageDrawHeight),
                        RMul(Frac(2, 100), R(H)))
          Y(r, s, pb, ch, img) ==
            getCaptionYPosition(r, s, H, pb, c.imageDrawTop,
                                c.imageDrawHeight, ch, img[1], img[2])
      IN  IF ratio = "9:16" \/ space = "L"
            THEN /\ c.yStart = fixed
                 /\ \A pb \in {R(0), RAdd(c.padBottom, R(10))},
                       ch \in {R(0), R(c.captionHeight + 7)},
                       img \in AcceptedImages :
                      Y(ratio, space, pb, ch, img) = fixed
                 /\ ratio = "9:16" =>
                      \A s \in SPACES :
                        Y(ratio, s, c.padBottom, R(c.captionHeight), image)
                          = fixed
                 /\ space = "L" =>
                      \A r \in RATIOS :
                        Y(r, space, c.padBottom, R(c.captionHeight), image)
                          = fixed
            ELSE /\ c.yStart =
                      RAdd(RSub(RSub(R(H), RDiv(c.padBottom, R(2))),
                                RDiv(R(c.captionHeight), R(2))),
                           RMul(getCaptionYOffset(ratio, space, image[1],
                                                  image[2], H), R(H)))
                 /\ Y(ratio, space, RAdd(c.padBottom, R(2)),
                      R(c.captionHeight), image) = RSub(c.yStart, R(1))
                 /\ Y(ratio, space, c.padBottom, R(c.captionHeight + 2),
                      image) = RSub(c.yStart, R(1))

C6_Witness ==
  /\ ratio = "9:16" /\ space = "S"
  /\ ExportLive /\ exportRender.caption.drawn

Is57Like(img) == AspectNear(img[1], img[2], 5, 7, Frac(1, 100))

\* C7: for a 5:7-like picture, ratio 1:1 or 5:7 and Spaces S or M the offset
\* is the 5:7-image table entry although the picture also lies in the 2:3
\* band; where no small-screen correction applies the anchor differs from
\* the base-table anchor by (entry57 - entryBase) x canvasHeight
C7_57ImageTableFirst ==
  (image # NoImage /\ Is57Like(image)
     /\ ratio \in {"1:1", "5:7"} /\ space \in {"S", "M"}) =>
    LET entry57 == CAPTION_Y_OFFSET_RATIO_57IMG[ratio][space]
        entryBase == CAPTION_Y_OFFSET_RATIO[ratio][space]
    IN  /\ AspectNear(image[1], image[2], 2, 3, Frac(5, 100))
        /\ \A H \in {CanvasSize(ratio, innerWidth, forceMobile)[2],
                     OutputSize(ratio)[2]} :
             getCaptionYOffset(ratio, space, image[1], image[2], H) = entry57
        /\ \A rd \in LiveRenders :
             (rd.caption.drawn
                /\ SmallScreenCorrection(ratio, space,
                                         rd.caption.canvasHeight) = R(0)) =>
               LET c == rd.caption
                   yBase == getCaptionYPosition(ratio, space, c.canvasHeight,
                              c.padBottom, c.imageDrawTop, c.imageDrawHeight,
                              R(c.captionHeight), 3000, 4000)
               IN  RSub(c.yStart, yBase)
                     = RMul(RSub(entry57, entryBase), R(c.canvasHeight))

C7_Witness ==
  /\ image = <<1000, 1400>> /\ ratio = "5:7" /\ space = "M"
  /\ ExportLive /\ exportRender.caption.drawn /\ ~mobileDevice

\* C8: for a picture that is not 5:7-like and Spaces S or M, the offset table
\* read agrees with the class getImageAspectRatioType returns
C8_TableAgreesWithClass ==
  (image # NoImage /\ ~Is57Like(image) /\ space \in {"S", "M"}) =>
    LET class == getImageAspectRatioType(image[1], image[2])
        table == OffsetTableOf(image[1], image[2])
    IN  /\ class = "2:3" => table = "23IMG"
        /\ class = "4:5" => table = "45IMG"
        /\ class \in {"3:4", "other"} => table = "BASE"

\* the entry of the table getCaptionYOffset selects for the picture
SelectedEntry(img, r, s) ==
  LET t == OffsetTableOf(img[1], img[2])
  IN  IF t = "57IMG" THEN Lookup(CAPTION_Y_OFFSET_RATIO_57IMG, r, s)
      ELSE IF t = "23IMG" THEN Lookup(CAPTION_Y_OFFSET_RATIO_23IMG, r, s)
      ELSE IF t = "45IMG" THEN Lookup(CAPTION_Y_OFFSET_RATIO_45IMG, r, s)
      ELSE Lookup(CAPTION_Y_OFFSET_RATIO, r, s)

\* the small-screen constant C9 names for (ratio, Spaces, canvas height)
SmallScreenConstant(r, s, H) ==
  IF r = "1:1" /\ s = "S" /\ H < 480 THEN Frac(21, 1000)
  ELSE IF r = "5:7" /\ s = "S" /\ H < 672 THEN Frac(12, 1000)
  ELSE R(0)

PaddingCentred == ratio # "9:16" /\ space \in {"S", "M"}

\* C9 as stated: in the padding-centred regime the offset is the selected
\* table's entry minus the small-screen constant, whichever table is selected
C9_CorrectionOnEveryTable ==
  \A rd \in LiveRenders :
    (rd.caption.drawn /\ PaddingCentred) =>
      getCaptionYOffset(ratio, space, image[1], image[2],
                        rd.caption.canvasHeight)
        = RSub(SelectedEntry(image, ratio, space),
               SmallScreenConstant(ratio, space, rd.caption.canvasHeight))

\* C9 amended: the constant is subtracted only when the base table is the
\* selected one; an entry of the 5:7, 2:3 or 4:5 picture table is returned
\* as it is
C9_CorrectionOnBaseTableOnly ==
  \A rd \in LiveRenders :
    (rd.caption.drawn /\ PaddingCentred) =>
      getCaptionYOffset(ratio, space, image[1], image[2],
                        rd.caption.canvasHeight)
        = RSub(SelectedEntry(image, ratio, space),
               IF OffsetTableOf(image[1], image[2]) = "BASE"
                 THEN SmallScreenConstant(ratio, space,
                                          rd.caption.canvasHeight)
                 ELSE R(0))

C9_Witness ==
  /\ ratio = "5:7" /\ space = "S" /\ forceMobile
  /\ image = <<2000, 3000>> /\ Preview.caption.drawn
  /\ Preview.height < 672

\* C10: every padding computed for a render has padLeft = padRight and all
\* four values >= 0
C10_PaddingSymmetricNonNegative ==
  \A rd \in LiveRenders :
    /\ rd.padLeft = rd.padRight
    /\ RLe(R(0), rd.padTop) /\ RLe(R(0), rd.padLeft)
    /\ RLe(R(0), rd.padRight) /\ RLe(R(0), rd.padBottom)

C10_Witness ==
  /\ ratio = "9:16" /\ space = "S" /\ ExportLive /\ image # NoImage

IsWhole(a) == a[2] = 1

\* C11: every padding of every preview and export render is a whole number
\* of pixels
C11_PaddingsWholePixels ==
  \A rd \in LiveRenders :
    /\ IsWhole(rd.padTop) /\ IsWhole(rd.padLeft)
    /\ IsWhole(rd.padRight) /\ IsWhole(rd.padBottom)

\* round(shortSide x basePadding) for a render
BaseOf(rd) ==
  LET shortSide == IF rd.width < rd.height THEN rd.width ELSE rd.height
      f == IF space = "S" THEN Frac(4, 100)
           ELSE IF space = "M" THEN Frac(8, 100) ELSE Frac(15, 100)
  IN  RRound(RMul(R(shortSide), f))

\* C12: padTop is 4.5 x base for 9:16 with S, 2.5 x base for 9:16 with M or
\* L, and base (= padLeft) for 1:1 and 5:7
C12_PadTopMultipliers ==
  \A rd \in LiveRenders :
    LET base == BaseOf(rd)
    IN  /\ (ratio = "9:16" /\ space = "S") =>
             rd.padTop = Frac(45 * base, 10)
        /\ (ratio = "9:16" /\ space \in {"M", "L"}) =>
             rd.padTop = Frac(25 * base, 10)
        /\ ratio \in {"1:1", "5:7"} =>
             (rd.padTop = R(base) /\ rd.padTop = rd.padLeft)

C12_Witness ==
  /\ ratio = "9:16" /\ space = "S" /\ ExportLive /\ forceMobile

\* C13: padBottom = round(shortSide x max(basePadding, minPadBottomFraction))
\* with the fraction 0.10 for (5:7, S) and 0.17 otherwise, and
\* padBottom >= padLeft
C13_PadBottomFormula ==
  \A rd \in LiveRenders :
    LET shortSide == IF rd.width < rd.height THEN rd.width ELSE rd.height
        basePadding == IF space = "S" THEN Frac(4, 100)
                       ELSE IF space = "M" THEN Frac(8, 100)
                       ELSE Frac(15, 100)
        minFraction == IF ratio = "5:7" /\ space = "S"
                         THEN Frac(10, 100) ELSE Frac(17, 100)
    IN  /\ rd.padBottom
             = R(RRound(RMul(R(shortSide), RMax(basePadding, minFraction))))
        /\ RLe(rd.padLeft, rd.padBottom)

C13_Witness ==
  /\ ratio = "5:7" /\ space = "S" /\ image # NoImage /\ forceMobile

\* C14: on every canvas the system uses the padded interior has positive
\* width and height
C14_PaddedInteriorPositive ==
  \A rd \in LiveRenders :
    /\ IF rd.kind = "export"
         THEN <<rd.width, rd.height>>
                \in {<<2400, 2400>>, <<1714, 2400>>, <<1350, 2400>>}
         ELSE IF forceMobile
           THEN rd.width <= 300 /\ rd.height <= 600
           ELSE <<rd.width, rd.height>>
                  \in {<<480, 480>>, <<480, 672>>, <<378, 672>>}
    /\ RLt(RAdd(rd.padLeft, rd.padRight), R(rd.width))
    /\ RLt(RAdd(rd.padTop, rd.padBottom), R(rd.height))

C14_Witness ==
  /\ ratio = "9:16" /\ space = "L" /\ ExportLive /\ forceMobile

\* C15: in the preview and in every export the image top is the centred
\* padTop + (drawH - targetH)/2 exactly when the ratio is 9:16, or 5:7 with
\* Spaces L and a picture of class 3:4 or 4:5; otherwise it is padTop
C15_VerticalPlacementRule ==
  \A rd \in LiveRenders :
    LET drawH == RSub(RSub(R(rd.height), rd.padTop), rd.padBottom)
        centred == RAdd(rd.padTop, RDiv(RSub(drawH, rd.targetH), R(2)))
        class == getImageAspectRatioType(image[1], image[2])
    IN  IF \/ ratio = "9:16"
           \/ (ratio = "5:7" /\ space = "L" /\ class \in {"3:4", "4:5"})
          THEN rd.top = centred
          ELSE rd.top = rd.padTop

\* |w/h - tn/td| < 1/10 over the integers
WithinTenth(w, h, tn, td) == 10 * IAbs(w * td - tn * h) < h * td

InAcceptanceBand(w, h) ==
  \/ WithinTenth(w, h, 3, 4)
  \/ WithinTenth(w, h, 2, 3)
  \/ WithinTenth(w, h, 4, 5)

\* C16: isSupportedAspectRatio accepts exactly the pictures with
\* |width/height - t| < 0.1 for a t in {3/4, 2/3, 4/5}: every picture in the
\* band is accepted, the loaded picture is always in the band, 3000x4000 is
\* accepted and 1000x1000 is rejected
C16_AcceptedExactlyInBand ==
  /\ \A i \in Images :
       InAcceptanceBand(i[1], i[2]) => isSupportedAspectRatio(i[1], i[2])
  /\ image # NoImage => InAcceptanceBand(image[1], image[2])
  /\ isSupportedAspectRatio(3000, 4000)
  /\ ~isSupportedAspectRatio(1000, 1000)

\* C17: every picture the acceptance check lets through has one of the
\* classes 3:4, 2:3, 4:5
C17_AcceptedImageHasClass ==
  image # NoImage =>
    getImageAspectRatioType(image[1], image[2]) \in {"3:4", "2:3", "4:5"}

\* C18: a rejected upload raises the error popup and leaves picture, colour
\* selection, EXIF data and caption lines as they were; the current picture
\* is always absent or accepted, also in every render
C18_RejectedUploadChangesNothing ==
  [][/\ image' \in AcceptedImages \cup {NoImage}
     /\ exportRender'.kind = "export" => image' # NoImage
     /\ (showErrorPopup'
           /\ \E img \in RejectedImages : handleFilesUpload(img, EmptyExif))
          => /\ image' = image
             /\ colourVars' = colourVars
             /\ exifData' = exifData
             /\ captionLines' = captionLines
     /\ (~showErrorPopup /\ showErrorPopup')
          => /\ image' = image
             /\ colourVars' = colourVars
             /\ exifData' = exifData
             /\ captionLines' = captionLines]_vars

C18_Witness ==
  /\ showErrorPopup /\ image = <<3000, 4000>> /\ color = "snap"
  /\ snapPattern = 2 /\ captionLines # <<"", "">>

\* C19: after every accepted load and after every Cancel/Reset the colour
\* selection is the default: white with all three patterns at 1
C19_ColourResetOnLoadAndCancel ==
  [][(\/ cancelOnClick
      \/ \E img \in AcceptedImages, exif \in ExifInputs :
           handleFilesUpload(img, exif))
       => /\ color' = "white"
          /\ snapPattern' = 1
          /\ retrobluePattern' = 1
          /\ autoPattern' = 1]_vars

\* C20: when the frame colour resolves to Snap pattern 2 (#FF9900), both
\* caption lines are drawn in #E2211C, fully opaque, and not in the contrast
\* colour of the frame
C20_SnapPattern2RedCaption ==
  /\ (color = "snap" /\ snapPattern = 2) =>
       Preview.frameColor = SNAP_COLORS.pattern2
  /\ \A rd \in LiveRenders :
       (rd.caption.drawn
          /\ (rd.frameColor = "#FF9900"
                \/ (color = "snap" /\ snapPattern = 2))) =>
         /\ rd.caption.firstLineColor = "#E2211C"
         /\ rd.caption.secondLineColor = "#E2211C"
         /\ rd.caption.firstLineAlpha = R(1)
         /\ rd.caption.secondLineAlpha = R(1)
         /\ getContrastColor(rd.frameColor) # rd.caption.firstLineColor

C20_Witness ==
  /\ color = "snap" /\ snapPattern = 2
  /\ ExportLive /\ exportRender.caption.drawn
  /\ exportRender.frameColor = "#FF9900"

\* ---------------------------------------------------------------------
\* colour sub-patterns and the print lock

SelectionStep ==
  \/ \E r \in RATIOS : ratioOnChange(r)
  \/ \E s \in SPACES : spaceOnChange(s)
  \/ \E c \in COLORS : handleColorChange(c)

CycleRule(c) ==
  /\ color' = c
  /\ c = "auto" =>
       autoPattern' = (IF color = "auto" THEN (autoPattern % 3) + 1 ELSE 1)
  /\ c = "snap" =>
       snapPattern' = (IF color = "snap" THEN 3 - snapPattern ELSE 1)
  /\ c = "retroblue" =>
       retrobluePattern' =
         (IF color = "retroblue" THEN 3 - retrobluePattern ELSE 1)

\* C24: selecting auto while auto is selected advances autoPattern
\* 1 -> 2 -> 3 -> 1, selecting snap or retroblue while it is selected
\* toggles its pattern between 1 and 2, and selecting one of the three from
\* another colour sets its pattern to 1.
C24_RepeatedSelectionCycles ==
  [][\A c \in {"auto", "snap", "retroblue"} :
       handleColorChange(c) => CycleRule(c)]_vars
C24_Witness ==
  color = "auto" /\ autoPattern = 3 /\ snapPattern = 2 /\ retrobluePattern = 2

\* C25: with a picture loaded, loading a new picture or changing the
\* ratio, the spacing or the colour leaves Print enabled.
C25_PrintEnabledAfterChange ==
  [][(/\ image' # NoImage
      /\ \/ image' # image
         \/ ratio' # ratio
         \/ space' # space
         \/ color' # color)
       => ~isPrintDisabled']_vars

\* C26: isPrintDisabled holds exactly when printStatus is done; a completed
\* export sets both and showResetButton, a ratio, spacing or colour change
\* made while locked clears both, and Cancel clears both and showResetButton.
C26_PrintLockInvariant ==
  /\ [](isPrintDisabled <=> printStatus = "done")
  /\ [][/\ toBlobCallback(TRUE) =>
             isPrintDisabled' /\ printStatus' = "done" /\ showResetButton'
        /\ (isPrintDisabled /\ SelectionStep) =>
             ~isPrintDisabled' /\ printStatus' = "idle"
        /\ cancelOnClick =>
             /\ ~isPrintDisabled'
             /\ printStatus' = "idle"
             /\ ~showResetButton']_vars
C26_Witness ==
  /\ ~isPrintDisabled
  /\ printStatus = "idle"
  /\ showResetButton
  /\ image # NoImage
  /\ color = "snap"

\* C27: the print lock is never set while no picture is loaded, whatever the
\* order of Cancel and the completion of a pending export.
C27_LockedImpliesImage == isPrintDisabled => image # NoImage

StrategyColor(pattern, img) ==
  IF pattern = 1 THEN getDominantColor(img)
  ELSE IF pattern = 2 THEN getCenterAverageColor(img)
  ELSE getHighlightColor(img)

\* C28: with a picture loaded and the colour auto, autoColor is the colour
\* that the strategy numbered autoPattern samples from the current picture.
C28_AutoColorMatchesPattern ==
  (image # NoImage /\ color = "auto") =>
    autoColor = StrategyColor(autoPattern, image)
C28_Witness ==
  /\ image = <<2000, 3000>>
  /\ color = "auto"
  /\ autoPattern = 3
  /\ autoColor = "#e53e3e"

\* ---------------------------------------------------------------------
\* contrast colour of the caption

ChannelsOf(c) == IF HexChannels(c) # <<>> THEN HexChannels(c) ELSE RgbChannels(c)

ContrastCase(rd) ==
  /\ rd.caption.drawn
  /\ ChannelsOf(rd.frameColor) # <<>>
  /\ rd.frameColor \notin {SNAP_COLORS.pattern1, SNAP_COLORS.pattern2, "#008080"}

\* C21: for a frame colour written #RRGGBB or rgb(r,g,b), other than the
\* Snap colours and #008080, both caption lines have one colour, #222 when
\* (299r + 587g + 114b)/1000 >= 128 and #fff otherwise.
C21_ContrastByYiq ==
  \A rd \in LiveRenders :
    ContrastCase(rd) =>
      LET ch == ChannelsOf(rd.frameColor)
          yiqTimes1000 == 299 * ch[1] + 587 * ch[2] + 114 * ch[3]
      IN  /\ rd.caption.firstLineColor = rd.caption.secondLineColor
          /\ rd.caption.firstLineColor =
               (IF yiqTimes1000 >= 128000 THEN "#222" ELSE "#fff")
C21_Witness ==
  /\ ExportLive
  /\ ContrastCase(exportRender)
  /\ exportRender.frameColor = "rgb(128,128,128)"
  /\ exportRender.caption.firstLineColor = "#222"

\* ---------------------------------------------------------------------
\* missing drawing surfaces

SkippedPrintStep ==
  \/ printOnClick(FALSE)
  \/ image = NoImage /\ printOnClick(TRUE)

\* C22: without canvas element or 2D context the preview render draws
\* nothing; a Print click with no picture or without an export 2D context
\* draws nothing, starts no download or share, and leaves printStatus,
\* isPrintDisabled and showResetButton as they were.
C22_NoSurfaceNoEffect ==
  /\ [](canvasRef # "ok" => Preview = NoRender)
  /\ [][SkippedPrintStep =>
          /\ exportRender'.kind # "export"
          /\ pendingBlobs' = pendingBlobs
          /\ printStatus' = printStatus
          /\ isPrintDisabled' = isPrintDisabled
          /\ showResetButton' = showResetButton]_vars
C22_Witness ==
  /\ exportRender = SkippedRender
  /\ image # NoImage
  /\ canvasRef = "noContext"
  /\ Preview = NoRender

\* ---------------------------------------------------------------------
\* caption text

ExpectedCameraName(make, model) ==
  IF model = "" THEN ""
  ELSE IF aliases(model) # "" THEN aliases(model)
  ELSE LET nMake == normalizeMake(make)
           nModel == normalizeModel(model)
       IN  IF Includes(ToLowerCase(nModel), ToLowerCase(nMake)) THEN nModel
           ELSE IF Includes(ToLowerCase(nMake), ToLowerCase(nModel))
             THEN nMake
           ELSE nMake \o " " \o nModel

ExpectedFirstLine ==
  [e \in PanelExifInputs |->
     IF ExpectedCameraName(e.Make, e.Model) = "" THEN ""
     ELSE "Shot on " \o ExpectedCameraName(e.Make, e.Model)]

\* C23: the camera name is the aliases entry of Model when there is one,
\* whatever Make is; otherwise it is built from the normalized Make and
\* Model, the model alone when it contains the make without regard to case,
\* the make alone when it contains the model, else 'Make Model'; without
\* Model the name is empty and caption line 1 is ''.
C23_CameraNamePriority ==
  (exifData # NoExif /\ ~isFilmScannerImage) =>
    /\ captionLines[1] = ExpectedFirstLine[exifData]
    /\ exifData.Model = "" => captionLines[1] = ""
    /\ exifData.Model = "iPhone15,2" =>
         captionLines[1] = "Shot on iPhone 15 Pro"
C23_Witness ==
  /\ exifData # NoExif
  /\ exifData.Make = "CANON"
  /\ captionLines[1] = "Shot on Canon EOS 5D"
  /\ captionLines[2] = "ISO 100 / f4 / 2.0s"

\* C29: caption line 1 is empty or begins with 'Shot on ', from EXIF and
\* from the manual inputs alike, and the prefix and the camera name that the
\* compositor draws side by side are together exactly line 1.
C29_FirstLinePrefix ==
  /\ captionLines[1] = "" \/ StartsWith(captionLines[1], "Shot on ")
  /\ captionLines[1] # "" =>
       SplitFirstLine(captionLines[1]).shotOn
         \o SplitFirstLine(captionLines[1]).cameraName = captionLines[1]
C29_Witness ==
  /\ isFilmScannerImage
  /\ manualCamera = "Shot on film"
  /\ captionLines = <<"Shot on Shot on film", "Tokyo">>
  /\ ExportLive

\* ---------------------------------------------------------------------
\* service worker

CacheFirstRequest(req) ==
  \/ req.pathname \in {"/", "/index.html"}
  \/ StartsWith(req.pathname, "/static/")
  \/ req.pathname \in STATIC_ASSETS
  \/ req.url \in STATIC_ASSETS
  \/ req.destination = "image"

\* the cached responses that answer a request: those stored under its URL;
\* the page is stored under /index.html
CachedFor(req) ==
  cachesMatch(req.url)
    \cup (IF req.pathname \in {"/", "/index.html"}
            THEN cachesMatch("/index.html") ELSE {})

InSteps(step, steps) == \E i \in 1..Len(steps) : steps[i] = step

\* C30: for a GET of /, /index.html, /static/*, a listed static asset or an
\* image, a cached response that is present is returned and the network is
\* not contacted; for every other GET the network is tried first and the
\* cache is consulted only when the network request fails; a response is
\* written to a cache only when its status is 200.
C30_FetchOrdering ==
  [][\A req \in SWRequests, net \in NetworkOutcomes :
       (req.method = "GET" /\ swFetch(req, net)) =>
         /\ lastFetch'.kind = "handled"
         /\ (CacheFirstRequest(req) /\ CachedFor(req) # {}) =>
              /\ lastFetch'.response.source = "cache"
              /\ ~InSteps("network", lastFetch'.steps)
         /\ ~CacheFirstRequest(req) =>
              /\ lastFetch'.steps[1] = "network"
              /\ InSteps("cache", lastFetch'.steps) => net.rejected
         /\ \A w \in lastFetch'.written : w.status = 200
         /\ \A e \in (staticCache' \cup dynamicCache')
                       \ (staticCache \cup dynamicCache) :
              /\ e.status = 200
              /\ \E w \in lastFetch'.written : w.key = e.key]_vars
C30_Witness ==
  /\ lastFetch.kind = "handled"
  /\ lastFetch.request.pathname = "/about"
  /\ lastFetch.steps = <<"network", "cache">>
  /\ lastFetch.response.source = "cache"
  /\ cachesMatch("/static/js/main.js") # {}

====
